---- MODULE Spec2Model ----
(***************************************************************************)
(* The Redis-backed task queue (src/src/taskqueue/__init__.py) and the     *)
(* worker dispatch loop (src/microservices/worker/main.py).                *)
(*                                                                         *)
(* The store is modelled as Redis behaves for the four commands the client *)
(* issues: RPUSH, BLPOP, EXPIRE and key expiry.  Time is in seconds and    *)
(* moves in steps of PopTimeout seconds, the shortest period the program   *)
(* uses; every timeout and TTL in the program is a multiple of it.         *)
(***************************************************************************)
EXTENDS Integers, Sequences, FiniteSets, TLC

\* ---------------------------------------------------------------- bounds
\* Number of enqueue calls in a behaviour.
MaxJobs == 2
\* Largest timeout a wait_for_result caller passes, in clock steps.
MaxTimeout == 1
\* Number of publish_result calls a client makes itself.
MaxPublishes == 3
\* Number of messages the gateway receives.
MaxMessages == 2
\* Number of request tasks the gateway creates for them.
MaxRequests == 1
\* messages the chat users send to the anti-spam check, and the last instant
\* of its clock
MaxSpamMessages == 22
MaxSpamClock == 10
\* messages of the last 30 seconds record_chat_activity has counted, over
\* all guilds, and the number of steps of its clock
MaxChatWindow == 7
MaxChatTicks == 2
\* voice-state updates the cog receives
MaxVoiceEvents == 4

\* ------------------------------------------------------ program constants
\* run_worker: queue.pop(timeout=5)
PopTimeout == 5
\* pop: int(data.get("result_ttl", 120))
DefaultResultTtl == 120

Workers == {"w1", "w2"}
\* message.author.id of the chat users
Users == {7, 8}
\* message.guild.id of the guilds
Guilds == {1, 2}
Callers == {"c1", "c2"}

\* ------------------------------------------------------- Python values
\* Every Python value is a record tagged with its type.
PyNone == [t |-> "None"]
PyStr(s) == [t |-> "str", v |-> s]
PyInt(n) == [t |-> "int", v |-> n]
PyDict(d) == [t |-> "dict", v |-> d]
PyList(s) == [t |-> "list", v |-> s]
PyTuple(s) == [t |-> "tuple", v |-> s]
\* An object json cannot encode (a set, a datetime, a class instance).
PyObject(n) == [t |-> "object", v |-> n]

EmptyDict == [k \in {} |-> PyNone]

\* dict.get(key, default)
DictGet(d, k, default) == IF k \in DOMAIN d THEN d[k] ELSE default

\* {**a, **b}: the keys of b win.
DictMerge(a, b) ==
    [k \in (DOMAIN a) \cup (DOMAIN b) |-> IF k \in DOMAIN b THEN b[k] ELSE a[k]]

\* Python truthiness, as `result or {}` uses it.
Truthy(x) ==
    CASE x.t = "None" -> FALSE
      [] x.t = "str" -> x.v # ""
      [] x.t = "int" -> x.v # 0
      [] x.t = "dict" -> DOMAIN x.v # {}
      [] x.t \in {"list", "tuple"} -> Len(x.v) > 0
      [] OTHER -> TRUE

\* ----------------------------------------------------------------- JSON
\* json.dumps turns a Python value into text, here a tree of JSON tokens;
\* json.loads turns text back into a Python value.  The two are not
\* inverse on every value: a tuple comes back as a list and an object
\* that json cannot encode raises TypeError.
JNull == [j |-> "null"]
JStr(s) == [j |-> "string", v |-> s]
JNum(n) == [j |-> "number", v |-> n]
JObj(d) == [j |-> "object", v |-> d]
JArr(s) == [j |-> "array", v |-> s]
\* Text that is not JSON.
JGarbage == [j |-> "garbage"]

RECURSIVE Serializable(_)
Serializable(x) ==
    CASE x.t \in {"None", "str", "int"} -> TRUE
      [] x.t = "dict" -> \A k \in DOMAIN x.v : Serializable(x.v[k])
      [] x.t \in {"list", "tuple"} -> \A i \in 1..Len(x.v) : Serializable(x.v[i])
      [] OTHER -> FALSE

RECURSIVE json_dumps(_)
json_dumps(x) ==
    CASE x.t = "None" -> JNull
      [] x.t = "str" -> JStr(x.v)
      [] x.t = "int" -> JNum(x.v)
      [] x.t = "dict" -> JObj([k \in DOMAIN x.v |-> json_dumps(x.v[k])])
      [] x.t \in {"list", "tuple"} -> JArr([i \in 1..Len(x.v) |-> json_dumps(x.v[i])])

RECURSIVE Decodable(_)
Decodable(r) ==
    CASE r.j \in {"null", "string", "number"} -> TRUE
      [] r.j = "object" -> \A k \in DOMAIN r.v : Decodable(r.v[k])
      [] r.j = "array" -> \A i \in 1..Len(r.v) : Decodable(r.v[i])
      [] OTHER -> FALSE

RECURSIVE json_loads(_)
json_loads(r) ==
    CASE r.j = "null" -> PyNone
      [] r.j = "string" -> PyStr(r.v)
      [] r.j = "number" -> PyInt(r.v)
      [] r.j = "object" -> PyDict([k \in DOMAIN r.v |-> json_loads(r.v[k])])
      [] r.j = "array" -> PyList([i \in 1..Len(r.v) |-> json_loads(r.v[i])])

\* int(x): defined on ints and on numeric strings, raises otherwise.
Numerals == [s \in {"0", "1", "2", "90"} |-> CASE s = "0" -> 0 [] s = "1" -> 1
                                                 [] s = "2" -> 2 [] s = "90" -> 90]
CanInt(x) == x.t = "int" \/ (x.t = "str" /\ x.v \in DOMAIN Numerals)
PyIntOf(x) == IF x.t = "int" THEN x.v ELSE Numerals[x.v]

\* str(x) as an f-string formats a value.
PyFormat(x) ==
    CASE x.t = "str" -> x.v
      [] x.t = "int" -> ToString(x.v)
      [] x.t = "None" -> "None"
      [] OTHER -> "<" \o x.t \o ">"

\* ------------------------------------------------------------ QueueTask
\* @dataclass QueueTask
QueueTask(job_id, job_type, payload, requested_by, result_ttl) ==
    [job_id |-> job_id, job_type |-> job_type, payload |-> payload,
     requested_by |-> requested_by, result_ttl |-> result_ttl]

NoTask == [job_id |-> PyNone]

\* task.__dict__
TaskDict(task) ==
    PyDict([k \in {"job_id", "job_type", "payload", "requested_by", "result_ttl"} |->
        CASE k = "job_id" -> task.job_id
          [] k = "job_type" -> task.job_type
          [] k = "payload" -> task.payload
          [] k = "requested_by" -> task.requested_by
          [] k = "result_ttl" -> task.result_ttl])

\* The record enqueue pushes: json.dumps(task.__dict__).
EnqueueRecord(task) == json_dumps(TaskDict(task))

\* pop, after BLPOP returned `raw`: whether json.loads and the QueueTask
\* constructor go through (no JSONDecodeError, KeyError, TypeError, ValueError).
PopDecodes(raw) ==
    /\ Decodable(raw)
    /\ LET data == json_loads(raw) IN
        /\ data.t = "dict"
        /\ "job_id" \in DOMAIN data.v
        /\ "job_type" \in DOMAIN data.v
        /\ CanInt(DictGet(data.v, "result_ttl", PyInt(DefaultResultTtl)))

\* A pop that does not read result_ttl from the record.
PopTaskDefaultTtl(raw) ==
    LET data == json_loads(raw).v IN
    QueueTask(data["job_id"],
              data["job_type"],
              DictGet(data, "payload", PyDict(EmptyDict)),
              DictGet(data, "requested_by", PyNone),
              PyInt(DefaultResultTtl))

\* pop, after BLPOP returned `raw`: the QueueTask it builds.
PopTask(raw) ==
    LET data == json_loads(raw).v IN
    QueueTask(data["job_id"],
              data["job_type"],
              DictGet(data, "payload", PyDict(EmptyDict)),
              DictGet(data, "requested_by", PyNone),
              PyInt(PyIntOf(DictGet(data, "result_ttl", PyInt(DefaultResultTtl)))))

\* -------------------------------------------------------------- keys
DEFAULT_QUEUE_KEY == "guildest:tasks"
DEFAULT_RESULT_PREFIX == "guildest:results:"

\* str(uuid.uuid4()): the n-th identifier drawn; no two draws are equal.
Uuid(n) == "job-" \o ToString(n)

JobIds == {Uuid(n) : n \in 1..MaxJobs}

\* A result key that does not depend on the job id.
result_key_shared(job_id) == DEFAULT_RESULT_PREFIX

\* _result_key
result_key(job_id) == DEFAULT_RESULT_PREFIX \o job_id

Keys == {DEFAULT_QUEUE_KEY} \cup {result_key(id) : id \in JobIds}


\* ------------------------------------------------------------- inputs
\* worker/main.py HANDLERS: the registered job types.
HANDLERS == {"llm_reply", "safety_scan"}

\* What enqueue callers pass: (job_type, payload, requested_by, result_ttl).
\* The llm_reply payload carries channel_context as fetch_channel_context
\* returns it, a list of (username, user_id, content) tuples.  "bogus" is a
\* type no handler serves.
EnqueueCalls ==
    { <<"safety_scan", PyDict([content |-> PyStr("hello")]), PyInt(7), PopTimeout>>,
      <<"llm_reply",
        PyDict([prompt |-> PyStr("hi"), guild_id |-> PyNone,
                channel_context |->
                    PyList(<<PyTuple(<<PyStr("alice"), PyStr("7"), PyStr("hi")>>)>>),
                active_user_ids |-> PyList(<<PyInt(7)>>)]),
        PyStr("u"), 2 * PopTimeout>>,
      <<"bogus", PyDict(EmptyDict), PyNone, PopTimeout>>,
      <<"safety_scan", PyDict(EmptyDict), PyNone, 0>> }

\* The timeouts wait_for_result callers pass.
WaitTimeouts == {k * PopTimeout : k \in 0..MaxTimeout}

\* What a handler returns: handle_llm_reply {"reply": reply},
\* handle_safety_scan {"verdict": verdict}.
HandlerResults(job_type) ==
    IF job_type = "llm_reply"
    THEN { PyDict([reply |-> PyStr("shalom")]), PyDict([reply |-> PyNone]) }
    ELSE { PyDict([verdict |-> PyNone]),
           PyDict([verdict |-> PyDict([verdict |-> PyStr("safe"),
                                       categories |-> PyList(<<>>)])]) }

\* What a handler raises: an Exception e, known by str(e).
HandlerErrors == {"boom"}

\* -------------------------------------------------------------- state
VARIABLES
    store,        \* Redis: key -> list of entries (an absent key is <<>>)
    expiry,       \* Redis: key -> seconds to live, NoExpiry when none is set
    nextId,       \* number of uuids drawn by enqueue
    wpc,          \* worker -> position in run_worker
    wtimer,       \* worker -> seconds left of its BLPOP
    task,         \* worker -> the QueueTask pop returned
    pending,      \* worker -> the publish_result call in progress
    cpc,          \* caller -> position in wait_for_result
    waitId,       \* caller -> job_id it waits for
    waitTimeout,  \* caller -> timeout it passed
    waited,       \* caller -> seconds it has been blocked
    outcome,      \* caller -> what wait_for_result did
    enqLog,       \* history: the tasks enqueue returned, in call order
    popLog,       \* history: the tasks pop returned, in return order
    pubLog,       \* history: job_id -> records publish_result appended
    handlerCalls, \* history: job_id -> number of handler invocations
    raised,       \* history: job_id -> str(exc) of the handler's exception
    lastPub,      \* history: job_id -> ttl and age of its last finished publish_result
    taken,        \* history: job_id -> number of records wait_for_result returned
    startKind,    \* history: caller -> what its wait found published when it began
    pub,          \* a client that calls publish_result itself: its position and call
    gw,           \* caller -> the gateway request (_queue_*) that task runs
    bot,          \* the gateway's on_message: messages handled, tasks spawned
    returned,     \* history: job_id -> what the job's handler returned
    delivered,    \* history: job_id -> the entries wait_for_result returned, in order
    reach,        \* whether the Redis server answers
    gwproc,       \* the gateway process: its position in main()
    antispam,     \* ActivityTracker._message_timestamps, the clock, and what
                  \* on_message did with each user's messages
    chat,         \* ActivityTracker._chat_activity and _chat_cooldowns, the
                  \* clock, and what record_chat_activity returned
    voice         \* VoiceRecordCog for one voice channel: its dictionaries, the
                  \* session, the connection, the members, the running handlers

vars == <<store, expiry, nextId, wpc, wtimer, task, pending, cpc, waitId,
          waitTimeout, waited, outcome, enqLog, popLog, pubLog, handlerCalls,
          raised, lastPub, taken, startKind, pub, gw, bot, returned, delivered,
          reach, gwproc, antispam, chat, voice>>

\* The state outside the queue, the workers and the waiting tasks.
sideVars == <<reach, gwproc, antispam, chat, voice>>
extraVars == <<pub, gw, bot, returned, delivered, sideVars>>

workerVars == <<wpc, wtimer, task, pending>>
callerVars == <<cpc, waitId, waitTimeout, waited, outcome>>
historyVars == <<enqLog, popLog, pubLog, handlerCalls, raised, lastPub, taken, startKind>>

NoExpiry == -1
NoPending == [branch |-> "none"]
NoOutcome == [kind |-> "none"]
NotRaised == [is |-> FALSE]
NotPublished == [done |-> FALSE]
NotReturned == [is |-> FALSE]
NoRequest == [pc |-> "none"]
NoCall == [pc |-> "idle", n |-> 0]
NoChatCall == [guild |-> 0, counted |-> FALSE, ret |-> FALSE, at |-> 0]
NoMessage == [is_spam |-> FALSE, count |-> 0, delete |-> "none", warned |-> FALSE]

Init ==
    /\ store = [k \in Keys |-> <<>>]
    /\ expiry = [k \in Keys |-> NoExpiry]
    /\ nextId = 0
    /\ wpc = [w \in Workers |-> "off"]
    /\ wtimer = [w \in Workers |-> PopTimeout]
    /\ task = [w \in Workers |-> NoTask]
    /\ pending = [w \in Workers |-> NoPending]
    /\ cpc = [c \in Callers |-> "idle"]
    /\ waitId = [c \in Callers |-> ""]
    /\ waitTimeout = [c \in Callers |-> 0]
    /\ waited = [c \in Callers |-> 0]
    /\ outcome = [c \in Callers |-> NoOutcome]
    /\ enqLog = <<>>
    /\ popLog = <<>>
    /\ pubLog = [id \in JobIds |-> <<>>]
    /\ handlerCalls = [id \in JobIds |-> 0]
    /\ raised = [id \in JobIds |-> NotRaised]
    /\ lastPub = [id \in JobIds |-> NotPublished]
    /\ taken = [id \in JobIds |-> 0]
    /\ startKind = [c \in Callers |-> "none"]
    /\ pub = NoCall
    /\ gw = [c \in Callers |-> NoRequest]
    /\ bot = [messages |-> 0, commands |-> 0, spawned |-> 0]
    /\ returned = [id \in JobIds |-> NotReturned]
    /\ delivered = [id \in JobIds |-> <<>>]
    /\ reach = TRUE
    /\ gwproc = "off"
    /\ antispam = [now |-> 0,
                   message_timestamps |-> [u \in Users |-> <<>>],
                   sent |-> [u \in Users |-> <<>>],
                   warnings |-> [u \in Users |-> 0],
                   last |-> [u \in Users |-> NoMessage]]
    /\ chat = [now |-> 0, tick |-> 0,
               chat_activity |-> [g \in Guilds |-> <<>>],
               chat_cooldowns |-> [g \in Guilds |-> PyNone],
               recent |-> [g \in Guilds |-> <<>>],
               trues |-> [g \in Guilds |-> <<>>],
               last |-> NoChatCall]
    /\ voice = [members |-> {},
                active_sinks |-> FALSE,
                recording_tasks |-> 0,
                voice_clients |-> FALSE,
                session |-> "none",
                conn |-> "none",
                tasks |-> {},
                events |-> 0,
                handlers |-> [h \in 1..MaxVoiceEvents |-> "none"]]

\* ------------------------------------------------------- Redis commands
\* An append at the head of the list (LPUSH).
lpush(st, key, value) == [st EXCEPT ![key] = <<value>> \o @]

\* A write that replaces the list by the one value (SET).
rpush_set(st, key, value) == [st EXCEPT ![key] = <<value>>]

\* RPUSH key value
rpush(st, key, value) == [st EXCEPT ![key] = Append(@, value)]

\* A read of the head that leaves it in the list (LINDEX instead of BLPOP).
blpop_rest_peek(list) == list

\* BLPOP key: what is left of the list once the head was returned.
blpop_rest(list) == Tail(list)

\* A key whose list became empty no longer exists, and neither does its TTL.
DropEmpty(ex, st) == [k \in Keys |-> IF st[k] = <<>> THEN NoExpiry ELSE ex[k]]

\* BLPOP with timeout 0 blocks until an element arrives; otherwise it gives
\* up once `timeout` seconds have passed.
BlpopTimedOut(timeout, elapsed) == timeout # 0 /\ elapsed >= timeout

\* A publish_result that sets no TTL.
expire_expiry_never(ex, st, key, ttl) == ex

\* EXPIRE key ttl: no effect on an absent key; a ttl <= 0 deletes the key.
expire_store(st, key, ttl) ==
    IF st[key] # <<>> /\ ttl <= 0 THEN [st EXCEPT ![key] = <<>>] ELSE st

\* An EXPIRE that leaves the TTL of a key that already has one (EXPIRE NX).
expire_expiry_nx(ex, st, key, ttl) ==
    IF st[key] # <<>> /\ ttl > 0 /\ ex[key] = NoExpiry THEN [ex EXCEPT ![key] = ttl] ELSE ex

expire_expiry(ex, st, key, ttl) ==
    IF st[key] # <<>> /\ ttl > 0 THEN [ex EXCEPT ![key] = ttl] ELSE ex

\* ---------------------------------------------------- RedisTaskQueue.enqueue
\* What enqueue does to the store (lines 54-63): draw an id, build the
\* task, RPUSH its record to the queue list, return the task.
EnqueueStep(call) ==
    /\ nextId < MaxJobs
    /\ LET job_id == Uuid(nextId + 1)
           t == QueueTask(PyStr(job_id), PyStr(call[1]), call[2], call[3],
                          PyInt(call[4]))
       IN /\ store' = rpush(store, DEFAULT_QUEUE_KEY, EnqueueRecord(t))
          /\ enqLog' = Append(enqLog, t)
    /\ nextId' = nextId + 1
    /\ UNCHANGED <<expiry, workerVars, callerVars, popLog, pubLog, handlerCalls, raised,
                   lastPub, taken, startKind, pub, bot, returned, delivered,
                   sideVars>>

\* An enqueue call by a producer other than a gateway request.
enqueue(call) == EnqueueStep(call) /\ UNCHANGED gw

\* ------------------------------------------------------------ run_worker
\* An unknown-type record that does not name the type.
UnknownTypeResultUnnamed(t) ==
    PyDict([status |-> PyStr("error"), error |-> PyStr("unknown job_type")])

\* The record the unknown-type branch publishes.
UnknownTypeResult(t) ==
    PyDict([status |-> PyStr("error"),
            error |-> PyStr("unknown job_type '" \o PyFormat(t.job_type) \o "'")])

\* An ok record that leaves out what the handler returned.
OkResultBare(result) == PyDict([status |-> PyStr("ok")])

\* {"status": "ok", **(result or {})}
OkResult(result) ==
    PyDict(DictMerge([status |-> PyStr("ok")],
                     IF Truthy(result) THEN result.v ELSE EmptyDict))

\* An error record that leaves the cause out.
ErrorResultNoCause(msg) == PyDict([status |-> PyStr("error"), error |-> PyStr("")])

\* {"status": "error", "error": str(exc)}
ErrorResult(msg) == PyDict([status |-> PyStr("error"), error |-> PyStr(msg)])

\* A publish that leaves ttl to publish_result's default.
PublishDefaultTtl(job_id, result, ttl, branch) ==
    [job_id |-> job_id, result |-> result, ttl |-> 300, branch |-> branch]

\* The publish_result call the loop is about to make: job id, record,
\* ttl=task.result_ttl, and the branch of the loop that makes it.
Publish(job_id, result, ttl, branch) ==
    [job_id |-> job_id, result |-> result, ttl |-> ttl, branch |-> branch]

\* A worker process starts (lines 70-73) and enters the loop's first pop.
WorkerStart(w) ==
    /\ wpc[w] = "off"
    /\ wpc' = [wpc EXCEPT ![w] = "pop"]
    /\ wtimer' = [wtimer EXCEPT ![w] = PopTimeout]
    /\ UNCHANGED <<store, expiry, nextId, task, pending, callerVars, historyVars, extraVars>>

\* A loop that starts the handler as a task of its own and goes round to
\* pop at once.
HandlerCallDetached == "pop"

\* Line 89, `result = await handler(task)`: the loop stays in the handler
\* call until it returns or raises.
HandlerCall == "handler"

\* pop returned a task (lines 74-86): BLPOP hands over the head record, pop
\* decodes it, and the loop looks the handler up.  An unknown type goes
\* straight to publish_result; a known one starts the handler.
WorkerPopJob(w) ==
    /\ wpc[w] = "pop"
    /\ store[DEFAULT_QUEUE_KEY] # <<>>
    /\ PopDecodes(Head(store[DEFAULT_QUEUE_KEY]))
    /\ LET t == PopTask(Head(store[DEFAULT_QUEUE_KEY])) IN
        /\ store' = [store EXCEPT ![DEFAULT_QUEUE_KEY] = blpop_rest(@)]
        /\ task' = [task EXCEPT ![w] = t]
        /\ popLog' = Append(popLog, t)
        /\ IF t.job_type.t = "str" /\ t.job_type.v \in HANDLERS
           THEN /\ wpc' = [wpc EXCEPT ![w] = HandlerCall]
                /\ handlerCalls' = [handlerCalls EXCEPT ![t.job_id.v] = @ + 1]
                /\ UNCHANGED pending
           ELSE /\ wpc' = [wpc EXCEPT ![w] = "rpush"]
                /\ pending' = [pending EXCEPT ![w] =
                       Publish(t.job_id, UnknownTypeResult(t), t.result_ttl.v, "unknown")]
                /\ UNCHANGED handlerCalls
    /\ UNCHANGED <<expiry, nextId, wtimer, callerVars, enqLog, pubLog, raised,
                   lastPub, taken, startKind, extraVars>>

\* A pop that, like wait_for_result, raises when BLPOP returns None.
PopOnNoneRaises == [raises |-> TRUE, value |-> NoTask]

\* pop, lines 67-68: BLPOP returned None, so pop returns None.
PopOnNone == [raises |-> FALSE, value |-> NoTask]

\* The queue stayed empty for the timeout (lines 74-77): pop returns None
\* and the loop sleeps before the next pop.
WorkerPopTimeout(w) ==
    /\ wpc[w] = "pop"
    /\ store[DEFAULT_QUEUE_KEY] = <<>>
    /\ BlpopTimedOut(PopTimeout, PopTimeout - wtimer[w])
    /\ IF PopOnNone.raises
       THEN wpc' = [wpc EXCEPT ![w] = "crashed"] /\ UNCHANGED task
       ELSE /\ wpc' = [wpc EXCEPT ![w] = "sleep"]
            /\ task' = [task EXCEPT ![w] = PopOnNone.value]
    /\ UNCHANGED <<store, expiry, nextId, wtimer, pending, callerVars, historyVars, extraVars>>

\* asyncio.sleep(0.1) is over; the loop calls pop again.
WorkerWake(w) ==
    /\ wpc[w] = "sleep"
    /\ wpc' = [wpc EXCEPT ![w] = "pop"]
    /\ wtimer' = [wtimer EXCEPT ![w] = PopTimeout]
    /\ UNCHANGED <<store, expiry, nextId, task, pending, callerVars, historyVars, extraVars>>

\* The handler returned `result` (lines 89-94): publish_result is entered
\* with the ok record; if json.dumps cannot encode it the TypeError lands
\* in the except branch (lines 95-101).
HandlerReturns(w, result) ==
    /\ wpc[w] = "handler"
    /\ wpc' = [wpc EXCEPT ![w] = "rpush"]
    /\ pending' = [pending EXCEPT ![w] =
           IF Serializable(OkResult(result))
           THEN Publish(task[w].job_id, OkResult(result), task[w].result_ttl.v, "ok")
           ELSE Publish(task[w].job_id, ErrorResult("not JSON serializable"),
                        task[w].result_ttl.v, "error")]
    /\ returned' = [returned EXCEPT ![task[w].job_id.v] = [is |-> TRUE, result |-> result]]
    /\ UNCHANGED <<store, expiry, nextId, wtimer, task, callerVars, historyVars,
                   pub, gw, bot, delivered, sideVars>>

\* handle_llm_reply or handle_safety_scan returned `result`.
HandlerReturn(w, result) ==
    /\ wpc[w] = "handler"
    /\ result \in HandlerResults(task[w].job_type.v)
    /\ HandlerReturns(w, result)

\* An except branch that lets the exception go on out of the loop.
ExceptBranchReraises == "crashed"

\* Line 95, `except Exception`: where an exception raised inside the try
\* block takes the loop, to the publish of the error record.
ExceptBranch == "rpush"

\* The handler raised (lines 95-101): the except branch publishes str(exc).
HandlerRaise(w, msg) ==
    /\ wpc[w] = "handler"
    /\ msg \in HandlerErrors
    /\ wpc' = [wpc EXCEPT ![w] = ExceptBranch]
    /\ pending' = [pending EXCEPT ![w] =
           Publish(task[w].job_id, ErrorResult(msg), task[w].result_ttl.v, "error")]
    /\ raised' = [raised EXCEPT ![task[w].job_id.v] = [is |-> TRUE, msg |-> msg]]
    /\ UNCHANGED <<store, expiry, nextId, wtimer, task, callerVars, enqLog, popLog,
                   pubLog, handlerCalls, lastPub, taken, startKind, extraVars>>

\* The list element publish_result appends: json.dumps(result).  Beside the
\* text it carries, as history, the job id and ttl of the call and its
\* number among the publishes for that job id.
Entry(job_id, result, ttl) ==
    [raw |-> json_dumps(result), job_id |-> job_id, ttl |-> ttl,
     seq |-> Len(pubLog[job_id]) + 1]

\* publish_result, line 82: RPUSH result:<job_id> json.dumps(result)
PublishRpush(w) ==
    /\ wpc[w] = "rpush"
    /\ LET p == pending[w]
           key == result_key(PyFormat(p.job_id))
       IN /\ store' = rpush(store, key, Entry(p.job_id.v, p.result, p.ttl))
          /\ pubLog' = [pubLog EXCEPT ![p.job_id.v] = Append(@, p.result)]
    /\ wpc' = [wpc EXCEPT ![w] = "expire"]
    /\ UNCHANGED <<expiry, nextId, wtimer, task, pending, callerVars, enqLog, popLog,
                   handlerCalls, raised, lastPub, taken, startKind, extraVars>>

\* publish_result, line 83: EXPIRE result:<job_id> ttl; then the loop
\* goes round to pop.
PublishExpire(w) ==
    /\ wpc[w] = "expire"
    /\ LET p == pending[w]
           key == result_key(PyFormat(p.job_id))
       IN /\ store' = expire_store(store, key, p.ttl)
          /\ expiry' = DropEmpty(expire_expiry(expiry, store, key, p.ttl), store')
    /\ wpc' = [wpc EXCEPT ![w] = "pop"]
    /\ wtimer' = [wtimer EXCEPT ![w] = PopTimeout]
    /\ pending' = [pending EXCEPT ![w] = NoPending]
    /\ lastPub' = [lastPub EXCEPT ![PyFormat(pending[w].job_id)] =
           [done |-> TRUE, ttl |-> pending[w].ttl, age |-> 0]]
    /\ UNCHANGED <<nextId, task, callerVars, enqLog, popLog, pubLog, handlerCalls, raised,
                   taken, startKind, extraVars>>

\* --------------------------------------------- RedisTaskQueue.wait_for_result
\* History: less than ttl seconds have passed since the last publish_result
\* for job_id finished.
Unexpired(job_id) == lastPub[job_id].done /\ lastPub[job_id].age < lastPub[job_id].ttl

\* History: ttl seconds or more have passed since it finished.
ExpiredSince(job_id) == lastPub[job_id].done /\ lastPub[job_id].age >= lastPub[job_id].ttl

\* History: some worker is inside publish_result for job_id.
PublishInProgress(job_id) ==
    \/ \E w \in Workers : wpc[w] \in {"rpush", "expire"} /\ PyFormat(pending[w].job_id) = job_id
    \/ pub.pc = "expire" /\ pub.job_id = job_id

\* A caller enters wait_for_result(job_id, timeout=T): BLPOP result:<job_id> T.
StartWait(c, job_id, timeout) ==
    /\ cpc[c] \in {"idle", "done"}
    /\ cpc' = [cpc EXCEPT ![c] = "waiting"]
    /\ waitId' = [waitId EXCEPT ![c] = job_id]
    /\ waitTimeout' = [waitTimeout EXCEPT ![c] = timeout]
    /\ waited' = [waited EXCEPT ![c] = 0]
    /\ outcome' = [outcome EXCEPT ![c] = NoOutcome]
    /\ startKind' = [startKind EXCEPT ![c] =
           IF Unexpired(job_id) /\ taken[job_id] = 0 THEN "unexpired"
           ELSE IF ExpiredSince(job_id) /\ ~PublishInProgress(job_id) THEN "expired"
           ELSE "other"]
    /\ UNCHANGED <<store, expiry, nextId, workerVars, enqLog, popLog, pubLog, handlerCalls,
                   raised, lastPub, taken, extraVars>>

\* BLPOP returned an entry (lines 90-91): return json.loads(raw).
WaitReturn(c) ==
    /\ cpc[c] = "waiting"
    /\ store[result_key(waitId[c])] # <<>>
    /\ LET key == result_key(waitId[c])
           entry == Head(store[key])
       IN /\ store' = [store EXCEPT ![key] = blpop_rest(@)]
          /\ expiry' = DropEmpty(expiry, store')
          /\ outcome' = [outcome EXCEPT ![c] =
                 [kind |-> "result", value |-> json_loads(entry.raw),
                  job_id |-> entry.job_id, seq |-> entry.seq]]
          /\ delivered' = [delivered EXCEPT ![waitId[c]] = Append(@, entry.seq)]
    /\ cpc' = [cpc EXCEPT ![c] = "done"]
    /\ waitTimeout' = [waitTimeout EXCEPT ![c] = 0]
    /\ waited' = [waited EXCEPT ![c] = 0]
    /\ taken' = [taken EXCEPT ![waitId[c]] = @ + 1]
    /\ UNCHANGED <<nextId, workerVars, waitId, enqLog, popLog, pubLog, handlerCalls, raised,
                   lastPub, startKind, pub, gw, bot, returned, sideVars>>

\* BLPOP returned None (lines 88-89): raise asyncio.TimeoutError.
WaitTimeout(c) ==
    /\ cpc[c] = "waiting"
    /\ store[result_key(waitId[c])] = <<>>
    /\ BlpopTimedOut(waitTimeout[c], waited[c])
    /\ outcome' = [outcome EXCEPT ![c] = [kind |-> "TimeoutError"]]
    /\ cpc' = [cpc EXCEPT ![c] = "done"]
    /\ UNCHANGED <<store, expiry, nextId, workerVars, waitId, waitTimeout, waited,
                   historyVars, extraVars>>

\* ----------------------------------------------------------------- time
\* A blocked BLPOP that can complete (an element is there, or its timeout
\* is up) completes before the clock moves.
WorkerBlocked(w) ==
    wpc[w] = "pop" =>
        /\ store[DEFAULT_QUEUE_KEY] = <<>>
        /\ ~BlpopTimedOut(PopTimeout, PopTimeout - wtimer[w])

CallerBlocked(c) ==
    cpc[c] = "waiting" =>
        /\ store[result_key(waitId[c])] = <<>>
        /\ ~BlpopTimedOut(waitTimeout[c], waited[c])

\* A key expiry that also takes the keys no TTL was set on.
ExpiredUntimed(ex, k, secs) == ex[k] <= secs

\* Key expiry: a key with a TTL loses `secs` seconds; at zero Redis deletes it.
Expired(ex, k, secs) == ex[k] # NoExpiry /\ ex[k] <= secs

expire_tick(ex, secs) ==
    [k \in Keys |-> IF ex[k] = NoExpiry \/ Expired(ex, k, secs) THEN NoExpiry
                    ELSE ex[k] - secs]

\* PopTimeout seconds pass.
Tick ==
    /\ \A w \in Workers : WorkerBlocked(w)
    /\ \A c \in Callers : CallerBlocked(c)
    /\ wtimer' = [w \in Workers |-> IF wpc[w] = "pop" THEN wtimer[w] - PopTimeout ELSE wtimer[w]]
    /\ waited' = [c \in Callers |->
           IF cpc[c] = "waiting" /\ waited[c] <= waitTimeout[c]
           THEN waited[c] + PopTimeout ELSE waited[c]]
    /\ expiry' = expire_tick(expiry, PopTimeout)
    /\ store' = [k \in Keys |-> IF Expired(expiry, k, PopTimeout) THEN <<>> ELSE store[k]]
    /\ lastPub' = [id \in JobIds |->
           IF lastPub[id].done /\ lastPub[id].age < lastPub[id].ttl
           THEN [lastPub[id] EXCEPT !.age = @ + PopTimeout] ELSE lastPub[id]]
    /\ UNCHANGED <<nextId, wpc, task, pending, cpc, waitId, waitTimeout, outcome,
                   enqLog, popLog, pubLog, handlerCalls, raised, taken, startKind, extraVars>>

\* ------------------------------------------------------- specification
\* The producers and the worker processes.
Next ==
    \/ \E call \in EnqueueCalls : enqueue(call)
    \/ \E w \in Workers : WorkerStart(w)
    \/ \E w \in Workers : WorkerPopJob(w)
    \/ \E w \in Workers : WorkerPopTimeout(w)
    \/ \E w \in Workers : WorkerWake(w)
    \/ \E w \in Workers, r \in UNION {HandlerResults(h) : h \in HANDLERS} : HandlerReturn(w, r)
    \/ \E w \in Workers, m \in HandlerErrors : HandlerRaise(w, m)
    \/ \E w \in Workers : PublishRpush(w)
    \/ \E w \in Workers : PublishExpire(w)
    \/ Tick

Spec == Init /\ [][Next]_vars

\* The scheduling the processes rely on: the event loop of a worker resumes a
\* coroutine whose await can complete, the store answers, a handler ends
\* (by returning or raising), and time passes.
Fairness ==
    /\ WF_vars(Tick)
    /\ \A w \in Workers :
        /\ WF_vars(WorkerPopJob(w))
        /\ WF_vars(WorkerPopTimeout(w))
        /\ WF_vars(WorkerWake(w))
        /\ WF_vars((\E r \in UNION {HandlerResults(h) : h \in HANDLERS} : HandlerReturn(w, r))
                   \/ (\E m \in HandlerErrors : HandlerRaise(w, m)))
        /\ WF_vars(PublishRpush(w))
        /\ WF_vars(PublishExpire(w))

FairSpec == Spec /\ Fairness

\* The producers, the worker processes and one task that waits for results.
WaitNext ==
    \/ Next
    \/ \E n \in 1..nextId, t \in WaitTimeouts : StartWait("c1", Uuid(n), t)
    \/ WaitReturn("c1")
    \/ WaitTimeout("c1")

WaitSpec == Init /\ [][WaitNext]_vars

\* ---------------------------------------------------------------- faults
\* Records another producer left on the queue list that pop cannot turn
\* into a QueueTask: text that is not JSON, a record without job_id, a
\* record whose result_ttl is null.
ForeignRecords(job_id) ==
    { JGarbage,
      JObj([job_type |-> JStr("llm_reply")]),
      JObj([job_id |-> JStr(job_id), job_type |-> JStr("llm_reply"), result_ttl |-> JNull]) }

\* Another producer appends a record to the queue list; it draws a job id
\* as enqueue does.
ForeignPush(raw) ==
    /\ nextId < MaxJobs
    /\ raw \in ForeignRecords(Uuid(nextId + 1))
    /\ nextId' = nextId + 1
    /\ store' = rpush(store, DEFAULT_QUEUE_KEY, raw)
    /\ UNCHANGED <<expiry, workerVars, callerVars, historyVars, extraVars>>

\* pop, lines 71-78: BLPOP handed over a record and json.loads or the
\* QueueTask constructor raised; run_worker calls pop outside any try
\* (line 74), so the exception ends run_worker.
WorkerPopUndecodable(w) ==
    /\ wpc[w] = "pop"
    /\ store[DEFAULT_QUEUE_KEY] # <<>>
    /\ ~PopDecodes(Head(store[DEFAULT_QUEUE_KEY]))
    /\ store' = [store EXCEPT ![DEFAULT_QUEUE_KEY] = blpop_rest(@)]
    /\ wpc' = [wpc EXCEPT ![w] = "crashed"]
    /\ UNCHANGED <<expiry, nextId, wtimer, task, pending, callerVars, historyVars, extraVars>>

\* A store call of publish_result raised a connectivity error.  Inside the
\* try block (lines 90-94) the except branch takes it and publishes an
\* error record; in the unknown-type branch (lines 81-85) and in the except
\* branch itself (lines 97-101) nothing catches it and run_worker ends.
AfterPublishFailure(w) ==
    IF pending[w].branch = "ok"
    THEN /\ wpc' = [wpc EXCEPT ![w] = ExceptBranch]
         /\ pending' = [pending EXCEPT ![w] =
                Publish(pending[w].job_id, ErrorResult("connection lost"),
                        pending[w].ttl, "error")]
    ELSE /\ wpc' = [wpc EXCEPT ![w] = "crashed"]
         /\ UNCHANGED pending

\* publish_result, line 82: RPUSH raised; nothing was appended.
PublishRpushFails(w) ==
    /\ wpc[w] = "rpush"
    /\ AfterPublishFailure(w)
    /\ UNCHANGED <<store, expiry, nextId, wtimer, task, callerVars, historyVars, extraVars>>

\* publish_result, line 83: EXPIRE raised; the appended record stays as it is.
PublishExpireFails(w) ==
    /\ wpc[w] = "expire"
    /\ AfterPublishFailure(w)
    /\ UNCHANGED <<store, expiry, nextId, wtimer, task, callerVars, historyVars, extraVars>>

\* The producers and workers, with foreign records on the queue and store
\* calls that fail.
FaultNext ==
    \/ Next
    \/ \E raw \in UNION {ForeignRecords(id) : id \in JobIds} : ForeignPush(raw)
    \/ \E w \in Workers : WorkerPopUndecodable(w)
    \/ \E w \in Workers : PublishRpushFails(w)
    \/ \E w \in Workers : PublishExpireFails(w)

FaultSpec == Init /\ [][FaultNext]_vars

\* ------------------------------------------- records without result_ttl
\* The record of a producer that writes job_id and job_type and leaves
\* payload, requested_by and result_ttl out; pop fills them in with
\* data.get's defaults (lines 75-77).
LegacyRecords(job_id) ==
    { JObj([job_id |-> JStr(job_id), job_type |-> JStr("safety_scan")]) }

\* That producer appends its record to the queue list; it draws a job id
\* as enqueue does.
LegacyPush(raw) ==
    /\ nextId < MaxJobs
    /\ raw \in LegacyRecords(Uuid(nextId + 1))
    /\ nextId' = nextId + 1
    /\ store' = rpush(store, DEFAULT_QUEUE_KEY, raw)
    /\ UNCHANGED <<expiry, workerVars, callerVars, historyVars, extraVars>>

\* The producers, one of them leaving result_ttl out, and the workers.
LegacyNext ==
    \/ Next
    \/ \E raw \in UNION {LegacyRecords(id) : id \in JobIds} : LegacyPush(raw)

LegacySpec == Init /\ [][LegacyNext]_vars

\* ------------------------------------------------- the handler table
\* Handler = Callable[[QueueTask], Awaitable[Dict]] (line 25): what a
\* function registered in HANDLERS may hand back to line 89: None, an empty
\* mapping, a mapping with fields of its own (one of them named status),
\* a mapping holding a value json cannot encode.
HandlerReturnValues ==
    { PyNone,
      PyDict(EmptyDict),
      PyDict([reply |-> PyStr("shalom")]),
      PyDict([reply |-> PyStr("")]),
      PyDict([status |-> PyStr("partial"), reply |-> PyStr("shalom")]),
      PyDict([reply |-> PyObject("datetime")]) }

\* A registered handler returned one of them.
AnyHandlerReturn(w, result) ==
    /\ result \in HandlerReturnValues
    /\ HandlerReturns(w, result)

\* The producers and the workers, with any handler behind a registered type.
RegistryNext ==
    \/ Next
    \/ \E w \in Workers, r \in HandlerReturnValues : AnyHandlerReturn(w, r)

RegistrySpec == Init /\ [][RegistryNext]_vars

\* ------------------------------------------- publish_result called directly
\* A client of RedisTaskQueue other than run_worker calls
\* publish_result(job_id, result, ttl) itself, several times for one job id
\* if it likes: (job_id, result, ttl).
PublishCalls ==
    UNION { { <<id, OkResult(PyDict([reply |-> PyStr("shalom")])), 2 * PopTimeout>>,
              <<id, ErrorResult("boom"), PopTimeout>> } : id \in JobIds }

\* publish_result, line 82, for that client.
ClientPublishRpush(call) ==
    /\ pub.pc = "idle"
    /\ pub.n < MaxPublishes
    /\ store' = rpush(store, result_key(call[1]), Entry(call[1], call[2], call[3]))
    /\ pubLog' = [pubLog EXCEPT ![call[1]] = Append(@, call[2])]
    /\ pub' = [pc |-> "expire", n |-> pub.n + 1, job_id |-> call[1], ttl |-> call[3]]
    /\ UNCHANGED <<expiry, nextId, workerVars, callerVars, enqLog, popLog, handlerCalls,
                   raised, lastPub, taken, startKind, gw, bot, returned, delivered,
                   sideVars>>

\* publish_result, line 83, for that client.
ClientPublishExpire ==
    /\ pub.pc = "expire"
    /\ store' = expire_store(store, result_key(pub.job_id), pub.ttl)
    /\ expiry' = DropEmpty(expire_expiry(expiry, store, result_key(pub.job_id), pub.ttl),
                           store')
    /\ lastPub' = [lastPub EXCEPT ![pub.job_id] =
           [done |-> TRUE, ttl |-> pub.ttl, age |-> 0]]
    /\ pub' = [pc |-> "idle", n |-> pub.n]
    /\ UNCHANGED <<nextId, workerVars, callerVars, enqLog, popLog, pubLog, handlerCalls,
                   raised, taken, startKind, gw, bot, returned, delivered,
                   sideVars>>

\* RedisTaskQueue driven through publish_result and wait_for_result alone:
\* one publishing client and two waiting tasks.
ApiNext ==
    \/ \E call \in PublishCalls : ClientPublishRpush(call)
    \/ ClientPublishExpire
    \/ \E c \in Callers, id \in JobIds, t \in WaitTimeouts : StartWait(c, id, t)
    \/ \E c \in Callers : WaitReturn(c)
    \/ \E c \in Callers : WaitTimeout(c)
    \/ Tick

ApiSpec == Init /\ [][ApiNext]_vars

\* --------------------------------------------- gateway (src/core/events.py)
\* _queue_message_safety: result_ttl=90, wait_for_result(timeout=30)
SafetyResultTtl == 90
SafetyTimeout == 30
\* _queue_llm_reply: result_ttl=180, wait_for_result(timeout=75)
LlmResultTtl == 180
LlmTimeout == 75

\* The messages on_message receives, by what decides its path: whether the
\* message is in a guild, its content, whether record_chat_activity asks for
\* a reply, whether the bot is mentioned.
Messages ==
    { [guild |-> PyInt(1), content |-> "hello", should_reply |-> FALSE, mentioned |-> FALSE],
      [guild |-> PyInt(1), content |-> "hello", should_reply |-> TRUE, mentioned |-> FALSE],
      [guild |-> PyInt(1), content |-> "", should_reply |-> FALSE, mentioned |-> FALSE],
      [guild |-> PyNone, content |-> "hello", should_reply |-> FALSE, mentioned |-> TRUE],
      [guild |-> PyNone, content |-> "hello", should_reply |-> FALSE, mentioned |-> FALSE] }

\* The background tasks on_message creates for a message, in creation order
\* (lines 225-226, 265-272, 293-301).
TasksFor(msg) ==
    (IF msg.guild # PyNone
     THEN <<[kind |-> "safety", text |-> msg.content, reply_to_message |-> FALSE]>>
     ELSE <<>>)
    \o (IF msg.guild # PyNone /\ msg.should_reply
        THEN <<[kind |-> "llm",
                text |-> IF msg.content # "" THEN msg.content ELSE "Join the conversation",
                reply_to_message |-> FALSE]>>
        ELSE <<>>)
    \o (IF msg.mentioned
        THEN <<[kind |-> "llm",
                text |-> IF msg.content # "" THEN msg.content ELSE "Say something",
                reply_to_message |-> TRUE]>>
        ELSE <<>>)

\* The k-th task the gateway creates runs in the k-th slot.
Slot(k) == IF k = 1 THEN "c1" ELSE "c2"

\* An on_message that awaits the request coroutines instead of spawning them.
SpawnAwaited == "await"

\* bot.loop.create_task(...): the coroutine runs as a task of its own.
Spawn == "create_task"

\* on_message, lines 187-307: the message pipeline up to process_commands.
\* It creates the safety-scan and LLM-reply tasks and waits for none of them.
OnMessage(msg) ==
    /\ bot.messages < MaxMessages
    /\ bot.messages = bot.commands
    /\ bot.spawned + Len(TasksFor(msg)) <= MaxRequests
    /\ gw' = [c \in Callers |->
           IF \E k \in 1..Len(TasksFor(msg)) : c = Slot(bot.spawned + k)
           THEN LET k == CHOOSE k \in 1..Len(TasksFor(msg)) : c = Slot(bot.spawned + k)
                IN [pc |-> "spawned", task |-> TasksFor(msg)[k], guild |-> msg.guild,
                    msg |-> bot.messages + 1, job |-> "", enqueues |-> 0,
                    effects |-> <<>>, error |-> "none", log |-> "none"]
           ELSE gw[c]]
    /\ bot' = [bot EXCEPT !.messages = @ + 1, !.spawned = @ + Len(TasksFor(msg))]
    /\ UNCHANGED <<store, expiry, nextId, workerVars, callerVars, historyVars, pub,
                   returned, delivered, sideVars>>

\* Whether the request in slot c has ended.
GwEnded(c) == gw[c].pc \in {"none", "done", "escaped"}

\* on_message, line 309: await bot.process_commands(message).
ProcessCommands ==
    /\ bot.commands < bot.messages
    /\ Spawn = "await" => \A c \in Callers : gw[c].pc # "none" /\ gw[c].msg = bot.messages
                                                => GwEnded(c)
    /\ bot' = [bot EXCEPT !.commands = @ + 1]
    /\ UNCHANGED <<store, expiry, nextId, workerVars, callerVars, historyVars, pub, gw,
                   returned, delivered, sideVars>>

\* _queue_message_safety line 61 / _queue_llm_reply line 98: nothing to
\* send, the request returns at once.
GwReturnEmpty(c) ==
    /\ gw[c].pc = "spawned"
    /\ gw[c].task.text = ""
    /\ gw' = [gw EXCEPT ![c].pc = "done"]
    /\ UNCHANGED <<store, expiry, nextId, workerVars, callerVars, historyVars, pub, bot,
                   returned, delivered, sideVars>>

\* The arguments of the request's enqueue call (lines 65-76, 103-117).
GwEnqueueCall(r) ==
    IF r.task.kind = "safety"
    THEN <<"safety_scan",
           PyDict([content |-> PyStr(r.task.text), guild_id |-> r.guild,
                   channel_id |-> PyInt(2), author_id |-> PyInt(7)]),
           PyInt(7), SafetyResultTtl>>
    ELSE <<"llm_reply",
           PyDict([prompt |-> PyStr(r.task.text), username |-> PyStr("alice"),
                   guild_name |-> PyNone, guild_id |-> r.guild, user_id |-> PyInt(7),
                   channel_id |-> PyInt(2),
                   channel_context |->
                       PyList(<<PyTuple(<<PyStr("alice"), PyStr("7"), PyStr("hi")>>)>>),
                   active_user_ids |-> PyList(<<PyInt(7)>>)]),
           PyInt(7), LlmResultTtl>>

\* job = await task_queue.enqueue(...) went through.
GwEnqueue(c) ==
    /\ gw[c].pc = "spawned"
    /\ gw[c].task.text # ""
    /\ EnqueueStep(GwEnqueueCall(gw[c]))
    /\ gw' = [gw EXCEPT ![c].pc = "enqueued", ![c].job = Uuid(nextId + 1),
                        ![c].enqueues = @ + 1]

\* An except clause list without the `except Exception` branch.
GwExceptTimeoutOnly(exc) == IF exc = "TimeoutError" THEN "timed out" ELSE "escaped"

\* The except clauses of a request (lines 82-86, 126-130): asyncio.TimeoutError
\* is logged as a timeout, any other Exception as a failure; both end the
\* request.  What is no Exception (CancelledError) leaves the task.
GwExcept(exc) ==
    CASE exc = "TimeoutError" -> "timed out"
      [] exc \in {"ConnectionError", "TypeError"} -> "failed"
      [] OTHER -> "escaped"

\* The request ends in an except clause, or the exception leaves it.
GwRaise(r, exc) ==
    [r EXCEPT !.error = exc, !.log = GwExcept(exc),
              !.pc = IF GwExcept(exc) = "escaped" THEN "escaped" ELSE "done"]

\* await task_queue.enqueue(...) raised a connectivity error: nothing was
\* pushed.
GwEnqueueFails(c) ==
    /\ gw[c].pc = "spawned"
    /\ gw[c].task.text # ""
    /\ gw' = [gw EXCEPT ![c] = GwRaise(gw[c], "ConnectionError")]
    /\ UNCHANGED <<store, expiry, nextId, workerVars, callerVars, historyVars, pub, bot,
                   returned, delivered, sideVars>>

\* The timeout the request passes to wait_for_result (lines 77, 118).
GwTimeout(r) == IF r.task.kind = "safety" THEN SafetyTimeout ELSE LlmTimeout

\* The request calls wait_for_result(job.job_id, timeout=...).
GwStartWait(c) ==
    /\ gw[c].pc = "enqueued"
    /\ cpc[c] = "idle"
    /\ StartWait(c, gw[c].job, GwTimeout(gw[c]))

\* The BLPOP of wait_for_result raised a connectivity error.
GwWaitFails(c) ==
    /\ gw[c].pc = "enqueued"
    /\ cpc[c] = "waiting"
    /\ cpc' = [cpc EXCEPT ![c] = "done"]
    /\ outcome' = [outcome EXCEPT ![c] = [kind |-> "ConnectionError"]]
    /\ UNCHANGED <<store, expiry, nextId, workerVars, waitId, waitTimeout, waited,
                   historyVars, extraVars>>

\* str.lower() on the strings of the model.
Lower(s) == CASE s = "SAFE" -> "safe" [] s = "Safe" -> "safe" [] OTHER -> s

\* _queue_message_safety, lines 78-81: what the request does with the record
\* wait_for_result returned.
SafetyEffects(verdict) ==
    IF verdict.t = "None" THEN <<>>
    ELSE IF Lower(PyFormat(DictGet(verdict.v, "verdict", PyStr("safe")))) # "safe"
         THEN <<[kind |-> "send_flagged_message_report", arg |-> verdict]>>
         ELSE <<>>

\* A _queue_llm_reply without the `if not reply_text: return` of line 120.
LlmEffectsUnchecked(result, reply_to_message) ==
    LET reply_text == DictGet(IF Truthy(result) THEN result.v ELSE EmptyDict,
                              "reply", PyNone)
    IN <<[kind |-> IF reply_to_message THEN "message.reply" ELSE "channel.send",
          arg |-> reply_text]>>

\* _queue_llm_reply, lines 119-125.
LlmEffects(result, reply_to_message) ==
    LET reply_text == DictGet(IF Truthy(result) THEN result.v ELSE EmptyDict,
                              "reply", PyNone)
    IN IF ~Truthy(reply_text) THEN <<>>
       ELSE <<[kind |-> IF reply_to_message THEN "message.reply" ELSE "channel.send",
               arg |-> reply_text]>>

\* wait_for_result is over: with a record the request performs its side
\* effect, with an exception it goes to its except clauses.
GwFinish(c) ==
    /\ gw[c].pc = "enqueued"
    /\ cpc[c] = "done"
    /\ gw' = [gw EXCEPT ![c] =
           IF outcome[c].kind = "result"
           THEN [gw[c] EXCEPT !.pc = "done",
                    !.effects = IF gw[c].task.kind = "safety"
                                THEN SafetyEffects(outcome[c].value)
                                ELSE LlmEffects(outcome[c].value,
                                                gw[c].task.reply_to_message)]
           ELSE GwRaise(gw[c], outcome[c].kind)]
    /\ UNCHANGED <<store, expiry, nextId, workerVars, callerVars, historyVars, pub, bot,
                   returned, delivered, sideVars>>

\* A request that can go on without waiting for the store or the clock does
\* so before the clock moves.
GwReady(c) ==
    \/ gw[c].pc = "spawned"
    \/ gw[c].pc = "enqueued" /\ cpc[c] \in {"idle", "done"}

GwTick == (\A c \in Callers : ~GwReady(c)) /\ bot.commands = bot.messages /\ Tick

\* The worker processes that serve the gateway.
GatewayWorkers == {"w1"}

\* The gateway, its requests and the worker process.
GatewayNext ==
    \/ \E msg \in Messages : OnMessage(msg)
    \/ ProcessCommands
    \/ \E c \in Callers : GwReturnEmpty(c)
    \/ \E c \in Callers : GwEnqueue(c)
    \/ \E c \in Callers : GwEnqueueFails(c)
    \/ \E c \in Callers : GwStartWait(c)
    \/ \E c \in Callers : WaitReturn(c)
    \/ \E c \in Callers : WaitTimeout(c)
    \/ \E c \in Callers : GwWaitFails(c)
    \/ \E c \in Callers : GwFinish(c)
    \/ \E w \in GatewayWorkers : WorkerStart(w)
    \/ \E w \in GatewayWorkers : WorkerPopJob(w)
    \/ \E w \in GatewayWorkers : WorkerPopTimeout(w)
    \/ \E w \in GatewayWorkers : WorkerWake(w)
    \/ \E w \in GatewayWorkers, r \in UNION {HandlerResults(h) : h \in HANDLERS} : HandlerReturn(w, r)
    \/ \E w \in GatewayWorkers, m \in HandlerErrors : HandlerRaise(w, m)
    \/ \E w \in GatewayWorkers : PublishRpush(w)
    \/ \E w \in GatewayWorkers : PublishExpire(w)
    \/ GwTick

GatewaySpec == Init /\ [][GatewayNext]_vars

\* The scheduling the gateway and its worker rely on: the event loop resumes
\* a task that can go on, the store answers, a handler ends, time passes.
GatewayFairness ==
    /\ WF_vars(GwTick)
    /\ \A c \in Callers :
        /\ WF_vars(GwReturnEmpty(c) \/ GwEnqueue(c) \/ GwEnqueueFails(c))
        /\ WF_vars(GwStartWait(c))
        /\ WF_vars(WaitReturn(c) \/ WaitTimeout(c) \/ GwWaitFails(c))
        /\ WF_vars(GwFinish(c))
    /\ \A w \in GatewayWorkers :
        /\ WF_vars(WorkerPopJob(w))
        /\ WF_vars(WorkerPopTimeout(w))
        /\ WF_vars(WorkerWake(w))
        /\ WF_vars((\E r \in UNION {HandlerResults(h) : h \in HANDLERS} : HandlerReturn(w, r))
                   \/ (\E m \in HandlerErrors : HandlerRaise(w, m)))
        /\ WF_vars(PublishRpush(w))
        /\ WF_vars(PublishExpire(w))

FairGatewaySpec == GatewaySpec /\ GatewayFairness

\* ------------------------------------------------ one worker, one waiter
\* The producers, one worker process and one task that waits for results.
SoloNext ==
    \/ \E call \in EnqueueCalls : enqueue(call)
    \/ \E w \in GatewayWorkers : WorkerStart(w)
    \/ \E w \in GatewayWorkers : WorkerPopJob(w)
    \/ \E w \in GatewayWorkers : WorkerPopTimeout(w)
    \/ \E w \in GatewayWorkers : WorkerWake(w)
    \/ \E w \in GatewayWorkers, r \in UNION {HandlerResults(h) : h \in HANDLERS} : HandlerReturn(w, r)
    \/ \E w \in GatewayWorkers, m \in HandlerErrors : HandlerRaise(w, m)
    \/ \E w \in GatewayWorkers : PublishRpush(w)
    \/ \E w \in GatewayWorkers : PublishExpire(w)
    \/ \E n \in 1..nextId, t \in WaitTimeouts : StartWait("c1", Uuid(n), t)
    \/ WaitReturn("c1")
    \/ WaitTimeout("c1")
    \/ Tick

SoloSpec == Init /\ [][SoloNext]_vars

\* The store also answers the waiter: a BLPOP that can complete does.
FairSoloSpec ==
    SoloSpec /\ Fairness /\ WF_vars(WaitReturn("c1")) /\ WF_vars(WaitTimeout("c1"))
\* ------------------------------------------------------ process startup
\* The Redis server stops answering, or answers again.
StoreDown ==
    /\ reach
    /\ reach' = FALSE
    /\ UNCHANGED <<store, expiry, nextId, workerVars, callerVars, historyVars,
                   pub, gw, bot, returned, delivered, gwproc, antispam, chat, voice>>

StoreUp ==
    /\ ~reach
    /\ reach' = TRUE
    /\ UNCHANGED <<store, expiry, nextId, workerVars, callerVars, historyVars,
                   pub, gw, bot, returned, delivered, gwproc, antispam, chat, voice>>

\* The gateway's main(), src/main.py lines 29-40: with a token, it pings
\* the store; an exception from the ping ends the process (sys.exit(1)).
GatewayMain ==
    /\ gwproc = "off"
    /\ gwproc' = "ping"
    /\ UNCHANGED <<store, expiry, nextId, workerVars, callerVars, historyVars,
                   pub, gw, bot, returned, delivered, reach, antispam, chat, voice>>

GatewayPing ==
    /\ gwproc = "ping"
    /\ gwproc' = IF reach THEN "setup_events" ELSE "exited"
    /\ UNCHANGED <<store, expiry, nextId, workerVars, callerVars, historyVars,
                   pub, gw, bot, returned, delivered, reach, antispam, chat, voice>>

\* Lines 43-46: the metrics server starts and setup_events(bot) registers
\* the event handlers.
GatewaySetupEvents ==
    /\ gwproc = "setup_events"
    /\ gwproc' = "cogs"
    /\ UNCHANGED <<store, expiry, nextId, workerVars, callerVars, historyVars,
                   pub, gw, bot, returned, delivered, reach, antispam, chat, voice>>

\* Lines 49-51: the cogs are loaded and bot.start(TOKEN) connects to chat.
GatewayConnect ==
    /\ gwproc = "cogs"
    /\ gwproc' = "running"
    /\ UNCHANGED <<store, expiry, nextId, workerVars, callerVars, historyVars,
                   pub, gw, bot, returned, delivered, reach, antispam, chat, voice>>

\* run_worker line 74 with a store that does not answer: BLPOP raises a
\* connectivity error, pop is outside any try, and run_worker ends.
WorkerPopUnreachable(w) ==
    /\ wpc[w] = "pop"
    /\ ~reach
    /\ wpc' = [wpc EXCEPT ![w] = "crashed"]
    /\ UNCHANGED <<store, expiry, nextId, wtimer, task, pending, callerVars, historyVars,
                   extraVars>>

\* The two processes starting, with a store that may be down; while it
\* answers, the producers and workers go on as usual.
StartupNext ==
    \/ StoreDown
    \/ StoreUp
    \/ GatewayMain
    \/ GatewayPing
    \/ GatewaySetupEvents
    \/ GatewayConnect
    \/ \E w \in Workers : WorkerStart(w)
    \/ \E w \in Workers : WorkerPopUnreachable(w)
    \/ (reach /\ Next)

StartupSpec == Init /\ [][StartupNext]_vars

\* ------------------------------------------------------------ anti-spam
\* check_spam: more than 20 messages within 10 seconds; on_message warns
\* at count 21.
SpamWindow == 10
SpamThreshold == 20
SpamWarnCount == 21
\* The clock of the message stream moves in steps of 5 seconds.
SpamStep == 5

\* Line 59: `ts > cutoff`.
SpamKept(ts, cutoff) == ts > cutoff

\* ActivityTracker.check_spam(user_id, now), lines 55-67: the user's
\* timestamps after the call, and the pair it returns.
check_spam(timestamps, now) ==
    LET cutoff == now - SpamWindow
        kept == SelectSeq(timestamps, LAMBDA ts : SpamKept(ts, cutoff))
        appended == Append(kept, now)
    IN [timestamps |-> appended,
        count |-> Len(appended),
        is_spam |-> Len(appended) > SpamThreshold]

\* on_message, lines 205-222, for a message of user u: check_spam, and on
\* spam message.delete() followed, at count 21, by the slow-down warning;
\* an exception from delete skips the warning.
SpamMessage(u, delete_raises) ==
    /\ Len(antispam.sent[7]) + Len(antispam.sent[8]) < MaxSpamMessages
    /\ LET r == check_spam(antispam.message_timestamps[u], antispam.now)
           warned == r.is_spam /\ ~delete_raises /\ r.count = SpamWarnCount
       IN antispam' = [antispam EXCEPT
              !.message_timestamps[u] = r.timestamps,
              !.sent[u] = Append(@, antispam.now),
              !.warnings[u] = IF ~r.is_spam THEN 0 ELSE IF warned THEN @ + 1 ELSE @,
              !.last[u] = [is_spam |-> r.is_spam, count |-> r.count,
                           delete |-> IF ~r.is_spam THEN "none"
                                      ELSE IF delete_raises THEN "raised" ELSE "deleted",
                           warned |-> warned]]
    /\ UNCHANGED <<store, expiry, nextId, workerVars, callerVars, historyVars,
                   pub, gw, bot, returned, delivered, reach, gwproc, chat, voice>>

\* Five seconds pass between two messages.
SpamClock ==
    /\ antispam.now < MaxSpamClock
    /\ antispam' = [antispam EXCEPT !.now = @ + SpamStep]
    /\ UNCHANGED <<store, expiry, nextId, workerVars, callerVars, historyVars,
                   pub, gw, bot, returned, delivered, reach, gwproc, chat, voice>>

\* The message stream of the chat users through the anti-spam check.
SpamNext ==
    \/ \E u \in Users, delete_raises \in BOOLEAN : SpamMessage(u, delete_raises)
    \/ SpamClock

SpamSpec == Init /\ [][SpamNext]_vars

\* ------------------------------------------------- active-chat detection
\* record_chat_activity: at least 6 messages of at least 3 users within 20
\* seconds, messages kept for 30 seconds, 45 seconds between two triggers.
ChatMinMessages == 6
ChatMinUsers == 3
ChatActiveWindow == 20
ChatKeepWindow == 30
ChatCooldown == 45
\* The instants at which messages arrive: seconds 0, 20, 45, and every 20
\* seconds from there.
ChatInstant(i) == CASE i = 0 -> 0 [] i = 1 -> 20 [] OTHER -> 45 + 20 * (i - 2)

\* ActivityTracker(bot_prefix=","): content.startswith(self.bot_prefix) on
\* the contents of the model.
StartsWithPrefix(content) == content = ",help"

\* The calls on_message makes (lines 248-256): (guild_id, user_id, is_bot,
\* content).
ChatCalls ==
    { <<1, 7, FALSE, "hello">>, <<1, 8, FALSE, "hello">>, <<1, 9, FALSE, "">>,
      <<2, 7, FALSE, "hello">>, <<1, 7, TRUE, "hello">>, <<1, 7, FALSE, ",help">> }

\* Lines 106-107: popleft while the head is older than 30 seconds.
RECURSIVE CleanWindow(_, _)
CleanWindow(window, now) ==
    IF window # <<>> /\ now - Head(window).ts > ChatKeepWindow
    THEN CleanWindow(Tail(window), now)
    ELSE window

\* A cooldown check that never holds a trigger back.
CooldownBlocksNever(last_trigger, now) == FALSE

\* Line 118: `last_trigger and (now - last_trigger) < timedelta(seconds=45)`.
CooldownBlocks(last_trigger, now) ==
    last_trigger # PyNone /\ now - last_trigger.v < ChatCooldown

\* ActivityTracker.record_chat_activity (Python fallback), lines 87-126:
\* the guild's window and cooldown after the call and the value returned;
\* `hit` is random.random() < 0.35.
record_chat_activity(window, last_trigger, user_id, is_bot, content, now, hit) ==
    IF is_bot \/ (content # "" /\ StartsWithPrefix(content))
    THEN [window |-> window, cooldown |-> last_trigger, counted |-> FALSE, ret |-> FALSE]
    ELSE LET appended == CleanWindow(Append(window, [ts |-> now, uid |-> user_id]), now)
             active_window == SelectSeq(appended, LAMBDA e : now - e.ts <= ChatActiveWindow)
             unique_users == {active_window[i].uid : i \in 1..Len(active_window)}
         IN IF Len(active_window) < ChatMinMessages
               \/ Cardinality(unique_users) < ChatMinUsers
            THEN [window |-> appended, cooldown |-> last_trigger, counted |-> TRUE,
                  ret |-> FALSE]
            ELSE IF CooldownBlocks(last_trigger, now)
            THEN [window |-> appended, cooldown |-> last_trigger, counted |-> TRUE,
                  ret |-> FALSE]
            ELSE IF hit
            THEN [window |-> appended, cooldown |-> PyInt(now), counted |-> TRUE,
                  ret |-> TRUE]
            ELSE [window |-> appended, cooldown |-> last_trigger, counted |-> TRUE,
                  ret |-> FALSE]

\* The messages of the last 30 seconds held in the windows.
HeldMessages ==
    LET held(g) == Cardinality({i \in 1..Len(chat.chat_activity[g]) :
                        chat.now - chat.chat_activity[g][i].ts <= ChatKeepWindow})
    IN held(1) + held(2)

\* The order in which the messages of one instant arrive makes no
\* difference to record_chat_activity; the streams explored are those in
\* which the messages a guild's window takes in within one instant come
\* ordered by user id.
InArrivalOrder(window, user_id, now) ==
    IF window = <<>> THEN TRUE
    ELSE window[Len(window)].ts < now \/ window[Len(window)].uid <= user_id

\* on_message, lines 248-256: should_reply = record_chat_activity(...);
\* random.random() is drawn where line 122 is reached.
ChatMessage(call) ==
    /\ call \in ChatCalls
    /\ HeldMessages < MaxChatWindow
    /\ InArrivalOrder(chat.chat_activity[call[1]], call[2], chat.now)
    /\ LET g == call[1] IN
       \E r \in {record_chat_activity(chat.chat_activity[g], chat.chat_cooldowns[g],
                                      call[2], call[3], call[4], chat.now, hit) :
                 hit \in BOOLEAN} :
          chat' = [chat EXCEPT
              !.chat_activity[g] = r.window,
              !.chat_cooldowns[g] = r.cooldown,
              !.recent[g] = IF r.counted THEN Append(@, [ts |-> chat.now, uid |-> call[2]])
                            ELSE @,
              !.trues[g] = IF r.ret THEN Append(@, chat.now) ELSE @,
              !.last = [guild |-> g, counted |-> r.counted, ret |-> r.ret, at |-> chat.now]]
    /\ UNCHANGED <<store, expiry, nextId, workerVars, callerVars, historyVars,
                   pub, gw, bot, returned, delivered, reach, gwproc, antispam, voice>>

\* Time passes up to the next instant; the history forgets what is older
\* than 20 seconds.
ChatClock ==
    /\ chat.tick < MaxChatTicks
    /\ chat' = [chat EXCEPT
           !.tick = @ + 1,
           !.now = ChatInstant(chat.tick + 1),
           !.recent = [g \in Guilds |->
               SelectSeq(chat.recent[g],
                         LAMBDA e : ChatInstant(chat.tick + 1) - e.ts <= ChatActiveWindow)]]
    /\ UNCHANGED <<store, expiry, nextId, workerVars, callerVars, historyVars,
                   pub, gw, bot, returned, delivered, reach, gwproc, antispam, voice>>

\* The guilds' messages through the active-chat detection.
ChatNext ==
    \/ \E call \in ChatCalls : ChatMessage(call)
    \/ ChatClock

ChatSpec == Init /\ [][ChatNext]_vars

\* ------------------------------------------------- voice auto-recording
\* VoiceRecordCog for one voice channel that is not in ignored_channels.
\* voice.active_sinks, voice.recording_tasks, voice.voice_clients: whether
\* the channel id is in the dictionary (for recording_tasks, the number of
\* the task it holds, 0 for none); voice.session: the entry of
\* _active_sessions; voice.conn: the library's voice client of the guild;
\* voice.tasks: the _periodic_transcription tasks created and not cancelled;
\* voice.handlers: where each on_voice_state_update call is.
VoiceUsers == {7, 8}

VoiceHandler(pc) == [voice EXCEPT !.events = @ + 1, !.handlers[voice.events + 1] = pc]

\* A member who is not a bot joins the channel (lines 184-195): the
\* handler notes the name and, when the channel is not being recorded and
\* has a human member, goes to sleep for 2 seconds; before.channel is None.
VoiceJoin(u) ==
    /\ voice.events < MaxVoiceEvents
    /\ u \notin voice.members
    /\ voice' = [VoiceHandler(IF ~voice.active_sinks THEN "sleep" ELSE "done")
                    EXCEPT !.members = @ \cup {u}]
    /\ UNCHANGED <<store, expiry, nextId, workerVars, callerVars, historyVars,
                   pub, gw, bot, returned, delivered, reach, gwproc, antispam, chat>>

\* The first part of _stop_recording (lines 98-110): the task is cancelled
\* and forgotten, and with a voice client registered the coroutine awaits
\* vc.disconnect(); without one it goes on to end_session and the sink
\* (lines 116-121) at once.
StopRecordingBegins(v, pc_after) ==
    IF v.voice_clients
    THEN [v EXCEPT !.tasks = @ \ {v.recording_tasks}, !.recording_tasks = 0,
                   !.events = @ + 1, !.handlers[v.events + 1] = "disconnect"]
    ELSE [v EXCEPT !.tasks = @ \ {v.recording_tasks}, !.recording_tasks = 0,
                   !.session = "none", !.active_sinks = FALSE,
                   !.events = @ + 1, !.handlers[v.events + 1] = pc_after]

\* A member leaves the channel (lines 198-205): after.channel is None; when
\* the channel is being recorded and no human is left, _stop_recording.
VoiceLeave(u) ==
    /\ voice.events < MaxVoiceEvents
    /\ u \in voice.members
    /\ LET v == [voice EXCEPT !.members = @ \ {u}] IN
       voice' = IF v.active_sinks /\ v.members = {}
                THEN StopRecordingBegins(v, "done")
                ELSE [v EXCEPT !.events = @ + 1, !.handlers[v.events + 1] = "done"]
    /\ UNCHANGED <<store, expiry, nextId, workerVars, callerVars, historyVars,
                   pub, gw, bot, returned, delivered, reach, gwproc, antispam, chat>>

\* Lines 194-195 and 63-64: after the sleep the handler calls
\* _start_recording, which returns only when the channel is already in
\* active_sinks.
JoinsAfterSleep(v) == ~v.active_sinks

\* The 2 seconds are over (lines 195, 59-68): _start_recording calls
\* channel.connect(), which raises when the guild already has a voice
\* client and otherwise registers one and connects.
VoiceWake(h) ==
    /\ voice.handlers[h] = "sleep"
    /\ voice' = IF ~JoinsAfterSleep(voice)
                THEN [voice EXCEPT !.handlers[h] = "done"]
                ELSE IF voice.conn # "none"
                THEN [voice EXCEPT !.handlers[h] = "done"]
                ELSE [voice EXCEPT !.handlers[h] = "connect", !.conn = "connecting"]
    /\ UNCHANGED <<store, expiry, nextId, workerVars, callerVars, historyVars,
                   pub, gw, bot, returned, delivered, reach, gwproc, antispam, chat>>

\* channel.connect() returned (lines 68-90): the client, the session, the
\* sink and a new transcription task are registered.
VoiceConnected(h) ==
    /\ voice.handlers[h] = "connect"
    /\ voice' = [voice EXCEPT !.handlers[h] = "done",
                              !.conn = "connected",
                              !.voice_clients = TRUE,
                              !.session = "active",
                              !.active_sinks = TRUE,
                              !.recording_tasks = h,
                              !.tasks = @ \cup {h}]
    /\ UNCHANGED <<store, expiry, nextId, workerVars, callerVars, historyVars,
                   pub, gw, bot, returned, delivered, reach, gwproc, antispam, chat>>

\* channel.connect() raised (lines 92-93): the library drops its client
\* and the except clause prints.
VoiceConnectFails(h) ==
    /\ voice.handlers[h] = "connect"
    /\ voice' = [voice EXCEPT !.handlers[h] = "done", !.conn = "none"]
    /\ UNCHANGED <<store, expiry, nextId, workerVars, callerVars, historyVars,
                   pub, gw, bot, returned, delivered, reach, gwproc, antispam, chat>>

\* vc.disconnect() is over (lines 110-121): `del self.voice_clients[...]`
\* raises KeyError when another _stop_recording removed the entry meanwhile;
\* otherwise the client, the session and the sink are removed.
VoiceDisconnected(h) ==
    /\ voice.handlers[h] = "disconnect"
    /\ voice' = IF ~voice.voice_clients
                THEN [voice EXCEPT !.handlers[h] = "failed", !.conn = "none"]
                ELSE [voice EXCEPT !.handlers[h] = "done",
                                   !.conn = "none",
                                   !.voice_clients = FALSE,
                                   !.session = "none",
                                   !.active_sinks = FALSE]
    /\ UNCHANGED <<store, expiry, nextId, workerVars, callerVars, historyVars,
                   pub, gw, bot, returned, delivered, reach, gwproc, antispam, chat>>

\* The voice-state updates of the channel and the handlers they start.
VoiceNext ==
    \/ \E u \in VoiceUsers : VoiceJoin(u)
    \/ \E u \in VoiceUsers : VoiceLeave(u)
    \/ \E h \in 1..MaxVoiceEvents : VoiceWake(h)
    \/ \E h \in 1..MaxVoiceEvents : VoiceConnected(h)
    \/ \E h \in 1..MaxVoiceEvents : VoiceConnectFails(h)
    \/ \E h \in 1..MaxVoiceEvents : VoiceDisconnected(h)

VoiceSpec == Init /\ [][VoiceNext]_vars

\* ------------------------------------------ _queue_llm_reply called directly
\* The prompts _queue_llm_reply is called with; on_message passes a
\* non-empty one, the function itself also takes the empty one (line 98).
Prompts == {"", "hello"}

\* _queue_llm_reply(message, prompt, ..., reply_to_message=...) is created
\* as a task.
CallLlmReply(prompt, reply_to_message) ==
    /\ bot.spawned < MaxRequests
    /\ gw[Slot(bot.spawned + 1)].pc = "none"
    /\ gw' = [gw EXCEPT ![Slot(bot.spawned + 1)] =
           [pc |-> "spawned",
            task |-> [kind |-> "llm", text |-> prompt, reply_to_message |-> reply_to_message],
            guild |-> PyInt(1), msg |-> 1, job |-> "", enqueues |-> 0,
            effects |-> <<>>, error |-> "none", log |-> "none"]]
    /\ bot' = [bot EXCEPT !.spawned = @ + 1]
    /\ UNCHANGED <<store, expiry, nextId, workerVars, callerVars, historyVars, pub,
                   returned, delivered, sideVars>>

\* LLM-reply requests, the worker process, and a handler table whose
\* llm_reply entry may return any mapping.
LlmNext ==
    \/ \E prompt \in Prompts, r \in BOOLEAN : CallLlmReply(prompt, r)
    \/ \E c \in Callers : GwReturnEmpty(c)
    \/ \E c \in Callers : GwEnqueue(c)
    \/ \E c \in Callers : GwEnqueueFails(c)
    \/ \E c \in Callers : GwStartWait(c)
    \/ \E c \in Callers : WaitReturn(c)
    \/ \E c \in Callers : WaitTimeout(c)
    \/ \E c \in Callers : GwWaitFails(c)
    \/ \E c \in Callers : GwFinish(c)
    \/ \E w \in GatewayWorkers : WorkerStart(w)
    \/ \E w \in GatewayWorkers : WorkerPopJob(w)
    \/ \E w \in GatewayWorkers : WorkerPopTimeout(w)
    \/ \E w \in GatewayWorkers : WorkerWake(w)
    \/ \E w \in GatewayWorkers, r \in HandlerReturnValues : AnyHandlerReturn(w, r)
    \/ \E w \in GatewayWorkers, m \in HandlerErrors : HandlerRaise(w, m)
    \/ \E w \in GatewayWorkers : PublishRpush(w)
    \/ \E w \in GatewayWorkers : PublishExpire(w)
    \/ GwTick

LlmSpec == Init /\ [][LlmNext]_vars


\* Whether this step is a pop that returns the only record of the queue.
PopsOnlyRecord ==
    Len(store[DEFAULT_QUEUE_KEY]) = 1 /\ Len(popLog') = Len(popLog) + 1

\* C1 as stated: when the queue holds exactly one record (the job that
\* enqueue put on an empty queue) and a pop returns, the task it returns
\* equals the task enqueue returned in job_id, job_type, payload,
\* requested_by and result_ttl.
C1_RoundTripExact ==
    [][PopsOnlyRecord => popLog'[Len(popLog')] = enqLog[Len(enqLog)]]_vars

\* A value as it looks after a JSON round trip: every tuple is a list.
RECURSIVE TuplesAsLists(_)
TuplesAsLists(x) ==
    CASE x.t = "dict" -> PyDict([k \in DOMAIN x.v |-> TuplesAsLists(x.v[k])])
      [] x.t \in {"list", "tuple"} -> PyList([i \in 1..Len(x.v) |-> TuplesAsLists(x.v[i])])
      [] OTHER -> x

\* C1, amended: the task pop returns has the job_id enqueue returned, the
\* same job_type, requested_by and result_ttl, and the payload enqueue was
\* given except that its tuples have become lists.
C1_RoundTrip ==
    [][PopsOnlyRecord =>
        LET got == popLog'[Len(popLog')]
            sent == enqLog[Len(enqLog)]
        IN /\ got.job_id = sent.job_id
           /\ got.job_type = sent.job_type
           /\ got.requested_by = sent.requested_by
           /\ got.result_ttl = sent.result_ttl
           /\ got.payload = TuplesAsLists(sent.payload)]_vars

\* The llm_reply job, enqueued on the empty queue, was popped: its
\* channel_context came back as a list of lists.
C1_Witness ==
    /\ Len(enqLog) = 1
    /\ Len(popLog) = 1
    /\ popLog[1].job_id = PyStr(Uuid(1))
    /\ popLog[1].job_type = PyStr("llm_reply")
    /\ popLog[1].requested_by = PyStr("u")
    /\ popLog[1].result_ttl = PyInt(2 * PopTimeout)
    /\ popLog[1].payload.v["channel_context"] =
           PyList(<<PyList(<<PyStr("alice"), PyStr("7"), PyStr("hi")>>)>>)

\* C2: at most one consumer.  No job is returned by two pop calls, no two
\* workers hold the same job, and every job that left the queue was
\* returned by a pop: of the workers racing for a job exactly one gets it.
C2_AtMostOneConsumer ==
    /\ Len(popLog) + Len(store[DEFAULT_QUEUE_KEY]) = Len(enqLog)
    /\ \A i, k \in 1..Len(popLog) : i # k => popLog[i].job_id # popLog[k].job_id
    /\ \A v, w \in Workers :
        (v # w /\ task[v] # NoTask /\ task[w] # NoTask) => task[v].job_id # task[w].job_id

\* Two workers were popping, one job was enqueued: one holds it, the other
\* got None.
C2_Witness ==
    /\ Len(enqLog) = 1
    /\ \E v, w \in Workers :
        /\ v # w
        /\ task[v] # NoTask /\ task[v].job_id = PyStr(Uuid(1))
        /\ wpc[w] = "sleep" /\ task[w] = NoTask

\* C5: a pop whose queue stayed empty for the whole timeout returns None and
\* does not raise: the worker goes to its sleep with no task, and the step
\* changes neither the pending-job list nor any result key or TTL.
C5_PopTimeoutReturnsNone ==
    [][\A w \in Workers :
        (wpc[w] = "pop" /\ wpc'[w] # "pop" /\ store[DEFAULT_QUEUE_KEY] = <<>>)
        => /\ wtimer[w] = 0
           /\ wpc'[w] = "sleep"
           /\ task'[w] = NoTask
           /\ store' = store
           /\ expiry' = expiry]_vars

\* A pop timed out while a published result was waiting under its key.
C5_Witness ==
    \E w \in Workers, id \in JobIds :
        /\ wpc[w] = "sleep"
        /\ task[w] = NoTask
        /\ store[result_key(id)] # <<>>
        /\ expiry[result_key(id)] > 0

\* Whether some worker holds task t at one of the positions pcs.
HeldAt(t, pcs) == \E w \in Workers : task[w] = t /\ wpc[w] \in pcs

\* C6: unknown type.  For every popped job whose job_type has no handler:
\* no handler is invoked; once the append of publish_result is done exactly
\* one record is published under the job's id, and it is
\* {status: "error", error: "unknown job_type '<type>'"}; the worker is
\* never stopped by it.
C6_UnknownType ==
    \A k \in 1..Len(popLog) :
        LET t == popLog[k]
            id == t.job_id.v
            expected == PyDict([status |-> PyStr("error"),
                                error |-> PyStr("unknown job_type '" \o t.job_type.v \o "'")])
        IN (t.job_type.v \notin {"llm_reply", "safety_scan"}) =>
            /\ handlerCalls[id] = 0
            /\ ~HeldAt(t, {"handler", "crashed"})
            /\ pubLog[id] = IF HeldAt(t, {"rpush"}) THEN <<>> ELSE <<expected>>

\* An unknown-type job was answered and its worker is back in pop.
C6_Witness ==
    \E w \in Workers :
        /\ task[w] # NoTask
        /\ task[w].job_type = PyStr("bogus")
        /\ wpc[w] = "pop"
        /\ Len(pubLog[task[w].job_id.v]) = 1
        /\ store[result_key(task[w].job_id.v)] # <<>>

\* C7: handler exception containment.  A worker whose current job's handler
\* raised gets back to pop, and while some worker runs every queued job is
\* eventually taken off the queue, whatever the handlers raise.
C7_ExceptionContained ==
    /\ \A w \in Workers :
        [](((task[w] # NoTask /\ wpc[w] # "handler") /\ raised[task[w].job_id.v].is)
            => <>(wpc[w] = "pop"))
    /\ ((store[DEFAULT_QUEUE_KEY] # <<>> /\ \E w \in Workers : wpc[w] # "off")
            ~> (store[DEFAULT_QUEUE_KEY] = <<>>))

\* One worker alone: job 1's handler raised, and the worker holds job 2.
C7_Witness ==
    \E w \in Workers :
        /\ \A v \in Workers \ {w} : wpc[v] = "off"
        /\ Len(popLog) = 2
        /\ raised[popLog[1].job_id.v].is
        /\ task[w] = popLog[2]
        /\ wpc[w] = "handler"

\* C8: handler exception.  For every job whose handler raised, the only
\* record published under its id is {status: "error", error: str(exc)};
\* it is there once the append of publish_result is done, and no "ok"
\* record is ever published for the job.
C8_HandlerErrorPublished ==
    \A k \in 1..Len(popLog) :
        LET t == popLog[k]
            id == t.job_id.v
        IN raised[id].is =>
            pubLog[id] = IF HeldAt(t, {"rpush"}) THEN <<>>
                         ELSE << PyDict([status |-> PyStr("error"),
                                         error |-> PyStr(raised[id].msg)]) >>

\* A handler raised and the error record sits under the job's result key.
C8_Witness ==
    \E id \in JobIds :
        /\ raised[id].is
        /\ Len(store[result_key(id)]) = 1
        /\ json_loads(store[result_key(id)][1].raw) =
               PyDict([status |-> PyStr("error"), error |-> PyStr("boom")])

\* C3: result correlation.  A record wait_for_result(Y) returned was
\* published under Y, never under another id, and it is exactly a record
\* publish_result was given for Y.
C3_ResultCorrelation ==
    \A c \in Callers :
        outcome[c].kind = "result" =>
            /\ outcome[c].job_id = waitId[c]
            /\ \E i \in 1..Len(pubLog[waitId[c]]) : pubLog[waitId[c]][i] = outcome[c].value

\* The waiter got the ok record of job 2 while the record of job 1 lies
\* published under its own key.
C3_Witness ==
    /\ outcome["c1"].kind = "result"
    /\ waitId["c1"] = Uuid(2)
    /\ outcome["c1"].value.v["status"] = PyStr("ok")
    /\ store[result_key(Uuid(1))] # <<>>
    /\ store[result_key(Uuid(2))] = <<>>

\* C4: timeout fires.  For a job_id nothing is published under, a
\* wait_for_result with timeout T is never still blocked after more than T
\* seconds, raises TimeoutError when exactly T seconds have passed, and
\* never returns None.
C4_TimeoutFires ==
    \A c \in Callers :
        (cpc[c] # "idle" /\ pubLog[waitId[c]] = <<>>) =>
            /\ cpc[c] = "waiting" => waited[c] <= waitTimeout[c]
            /\ outcome[c].kind = "TimeoutError" => waited[c] = waitTimeout[c]
            /\ outcome[c].kind \in {"none", "TimeoutError"}

\* C9: no job-scoped failure ends run_worker: whatever records are on the
\* queue and whichever publish fails, no worker process has stopped.
C9_WorkerSurvives == \A w \in Workers : wpc[w] # "crashed"

\* C10: expiry.  A wait that begins while the last publish for its job_id is
\* less than ttl seconds old (and unconsumed) finds the record and returns
\* it; a wait that begins more than ttl seconds after the last publish finds
\* nothing, never returns a record, and ends only by TimeoutError.
C10_Expiry ==
    \A c \in Callers :
        /\ startKind[c] = "unexpired" =>
            /\ cpc[c] = "waiting" => store[result_key(waitId[c])] # <<>>
            /\ cpc[c] = "done" =>
                /\ outcome[c].kind = "result"
                /\ outcome[c].value = pubLog[waitId[c]][Len(pubLog[waitId[c]])]
        /\ startKind[c] = "expired" =>
            /\ cpc[c] = "waiting" => store[result_key(waitId[c])] = <<>>
            /\ cpc[c] = "done" => outcome[c].kind = "TimeoutError"

\* A record published with ttl 10 was returned to a wait that began while it
\* was unexpired.
C10_Witness ==
    /\ startKind["c1"] = "unexpired"
    /\ cpc["c1"] = "done"
    /\ lastPub[waitId["c1"]].ttl = 2 * PopTimeout
    /\ lastPub[waitId["c1"]].age = PopTimeout

\* C11: every result key in the store carries an expiry.  Whatever store
\* call fails, a result key that holds a record has a TTL, unless a
\* publish_result for it is still between its append and its expire.
C11_ResultKeysExpire ==
    \A id \in JobIds :
        store[result_key(id)] # <<>> =>
            (expiry[result_key(id)] # NoExpiry \/ PublishInProgress(id))

\* C12: single terminal outcome.  For every job the handler is invoked at
\* most once and at most one result record is appended under the job's id,
\* also when a store call inside publish_result fails.
C12_SingleOutcome ==
    \A id \in JobIds : handlerCalls[id] <= 1 /\ Len(pubLog[id]) <= 1

\* C13: FIFO delivery.  The k-th task returned by any pop is the k-th task
\* enqueued: no pop returns a job before every job enqueued ahead of it
\* has been returned, with two workers popping concurrently.
C13_Fifo ==
    /\ Len(popLog) <= Len(enqLog)
    /\ \A i \in 1..Len(popLog) : popLog[i].job_id = enqLog[i].job_id

\* Two jobs were enqueued; one worker holds the first while the second is
\* still queued and the other worker is in pop.
C13_Witness ==
    /\ Len(enqLog) = 2
    /\ Len(popLog) = 1
    /\ Len(store[DEFAULT_QUEUE_KEY]) = 1
    /\ \E v, w \in Workers :
        /\ v # w
        /\ task[v] # NoTask /\ task[v].job_id = enqLog[1].job_id /\ wpc[v] = "handler"
        /\ wpc[w] = "pop"

\* C14: only pop removes pending jobs.  The pending-job list changes only
\* by an enqueue, which appends its record at the tail, or by a pop that
\* returns, which removes exactly the head (the job it returns); a
\* publish_result, a wait_for_result that starts, returns or times out, and
\* key expiry leave the list as it is, and the list never has a TTL.
C14_OnlyPopRemoves ==
    [][LET q == store[DEFAULT_QUEUE_KEY]
           q2 == store'[DEFAULT_QUEUE_KEY]
           popped == Len(popLog') = Len(popLog) + 1
           enqueued == Len(enqLog') = Len(enqLog) + 1
       IN /\ q2 # q => (popped \/ enqueued)
          /\ popped =>
                /\ q # <<>>
                /\ q2 = Tail(q)
                /\ popLog'[Len(popLog')].job_id = json_loads(Head(q)).v["job_id"]
          /\ enqueued => q2 = Append(q, json_dumps(TaskDict(enqLog'[Len(enqLog')])))
          /\ (pubLog' # pubLog \/ expiry' # expiry \/ cpc' # cpc \/ outcome' # outcome)
                => q2 = q
          /\ expiry'[DEFAULT_QUEUE_KEY] = NoExpiry]_vars

\* The waiter of job 2 timed out while job 2 is still queued; the result of
\* job 1 was published meanwhile.
C14_Witness ==
    /\ cpc["c1"] = "done"
    /\ outcome["c1"].kind = "TimeoutError"
    /\ waitId["c1"] = Uuid(2)
    /\ pubLog[Uuid(1)] # <<>>
    /\ Len(store[DEFAULT_QUEUE_KEY]) = 1
    /\ json_loads(store[DEFAULT_QUEUE_KEY][1]).v["job_id"] = PyStr(Uuid(2))

\* C15: each published entry is delivered to at most one wait_for_result.
\* The entries returned for a job id are distinct entries published for it;
\* of two waiters on one job id no two hold the same entry, so with one
\* entry published at most one holds it; a wait_for_result that ends without
\* an entry ends by TimeoutError.
C15_AtMostOneWaiter ==
    /\ \A id \in JobIds :
        /\ \A i, k \in 1..Len(delivered[id]) : i # k => delivered[id][i] # delivered[id][k]
        /\ \A i \in 1..Len(delivered[id]) : delivered[id][i] \in 1..Len(pubLog[id])
        /\ Len(delivered[id]) + Len(store[result_key(id)]) <= Len(pubLog[id])
    /\ \A c, d \in Callers :
        (c # d /\ outcome[c].kind = "result" /\ outcome[d].kind = "result"
            /\ waitId[c] = waitId[d]) => outcome[c].seq # outcome[d].seq
    /\ \A c \in Callers :
        cpc[c] = "done" =>
            \/ outcome[c].kind = "TimeoutError"
            \/ /\ outcome[c].kind = "result"
               /\ outcome[c].value = pubLog[waitId[c]][outcome[c].seq]

\* Two waiters began to wait on one job id before anything was published
\* for it; one entry was published; one waiter returned it and the other
\* timed out.
C15_Witness ==
    \E c, d \in Callers :
        /\ c # d
        /\ waitId[c] = waitId[d]
        /\ startKind[c] = "other" /\ startKind[d] = "other"
        /\ Len(pubLog[waitId[c]]) = 1
        /\ cpc[c] = "done" /\ outcome[c].kind = "result"
        /\ cpc[d] = "done" /\ outcome[d].kind = "TimeoutError"

\* C20: publish_result appends.  A publish adds its entry at the tail of
\* the job's result list and keeps the entries already there; the list
\* holds the latest publishes in publish order; a wait_for_result that
\* returns takes the head, the earliest published entry still there, returns
\* its record and leaves the others in place; successive waits therefore
\* return entries in publish order.
C20_PublishAppends ==
    /\ [](\A id \in JobIds :
            LET q == store[result_key(id)] IN
            /\ \A i \in 1..Len(q) : q[i].seq = Len(pubLog[id]) - Len(q) + i
            /\ \A i \in 1..Len(q) : q[i].raw = json_dumps(pubLog[id][q[i].seq])
            /\ \A i, k \in 1..Len(delivered[id]) :
                   i < k => delivered[id][i] < delivered[id][k])
    /\ [][\A id \in JobIds :
            LET q == store[result_key(id)]
                q2 == store'[result_key(id)]
            IN /\ Len(pubLog'[id]) = Len(pubLog[id]) + 1 =>
                    /\ Len(q2) = Len(q) + 1
                    /\ \A i \in 1..Len(q) : q2[i] = q[i]
                    /\ q2[Len(q2)].raw = json_dumps(pubLog'[id][Len(pubLog'[id])])
               /\ Len(delivered'[id]) = Len(delivered[id]) + 1 =>
                    /\ q # <<>>
                    /\ q2 = Tail(q)
                    /\ delivered'[id][Len(delivered'[id])] = Head(q).seq
                    /\ \E c \in Callers :
                        /\ cpc[c] = "waiting" /\ cpc'[c] = "done" /\ waitId[c] = id
                        /\ outcome'[c].value = pubLog[id][Head(q).seq]]_vars

\* Three publishes to one job id; two waits returned the first and the
\* second entry, in that order, and the third is still under the key.
C20_Witness ==
    \E id \in JobIds :
        /\ Len(pubLog[id]) = 3
        /\ delivered[id] = <<1, 2>>
        /\ Len(store[result_key(id)]) = 1
        /\ store[result_key(id)][1].seq = 3

\* C16: gateway failure path.  A request enqueues at most one job and no
\* exception leaves its task; a request whose enqueue or wait_for_result
\* raised a connectivity error, or whose wait_for_result timed out, has
\* ended in an except clause and has sent no reply and no report.
C16_GatewayFailurePath ==
    /\ Len(enqLog) <= bot.spawned
    /\ \A c \in Callers :
        gw[c].pc # "none" =>
            /\ gw[c].enqueues <= 1
            /\ gw[c].pc # "escaped"
            /\ gw[c].error \in {"ConnectionError", "TimeoutError"} =>
                /\ gw[c].pc = "done"
                /\ gw[c].effects = <<>>
                /\ gw[c].log \in {"failed", "timed out"}
            /\ (cpc[c] = "done" /\ outcome[c].kind \in {"ConnectionError", "TimeoutError"}) =>
                gw[c].effects = <<>>

\* A request timed out, the worker published the job's result afterwards,
\* and the request has ended without a side effect.
C16_Witness ==
    /\ gw["c1"].pc = "done"
    /\ gw["c1"].error = "TimeoutError"
    /\ gw["c1"].enqueues = 1
    /\ gw["c1"].effects = <<>>
    /\ pubLog[gw["c1"].job] # <<>>

\* C17: on_message never waits on a queue result.  Whatever the requests,
\* the workers and the store are doing, a message whose pipeline has run
\* can go on to process_commands, and the next message can be handled.
C17_OnMessageNeverWaits ==
    /\ bot.commands < bot.messages => ENABLED ProcessCommands
    /\ (bot.commands = bot.messages /\ bot.messages < MaxMessages) =>
            \E msg \in Messages : ENABLED OnMessage(msg)

\* No worker runs and nothing was published; the request of the first
\* message is suspended in wait_for_result, and the second message has
\* reached process_commands.
C17_Witness ==
    /\ \A w \in Workers : wpc[w] = "off"
    /\ \A id \in JobIds : pubLog[id] = <<>>
    /\ gw["c1"].pc = "enqueued"
    /\ gw["c1"].msg = 1
    /\ cpc["c1"] = "waiting"
    /\ waited["c1"] > 0
    /\ bot.messages = 2
    /\ bot.commands = 2

\* C18: a waiter timing out does not cancel the job.  Once wait_for_result
\* has raised TimeoutError for a job, a running worker still publishes a
\* result for that job; no waiter ever receives a record published under
\* another job id than the one it waits for; and a published result that
\* nobody takes is gone when its TTL has elapsed.
C18_TimeoutDoesNotCancel ==
    /\ \A id \in JobIds :
        (/\ outcome["c1"].kind = "TimeoutError"
         /\ waitId["c1"] = id
         /\ \E w \in GatewayWorkers : wpc[w] # "off")
            ~> (pubLog[id] # <<>>)
    /\ [](\A c \in Callers : outcome[c].kind = "result" => outcome[c].job_id = waitId[c])
    /\ [](\A id \in JobIds :
            (ExpiredSince(id) /\ ~PublishInProgress(id)) => store[result_key(id)] = <<>>)
    /\ \A id \in JobIds : (store[result_key(id)] # <<>>) ~> (store[result_key(id)] = <<>>)

\* The waiter of job 1 timed out before anything was published for it;
\* the worker published the result later, nobody took it, and it has
\* expired.
C18_Witness ==
    /\ cpc["c1"] = "done"
    /\ outcome["c1"].kind = "TimeoutError"
    /\ waitId["c1"] = Uuid(1)
    /\ startKind["c1"] = "other"
    /\ pubLog[Uuid(1)] # <<>>
    /\ taken[Uuid(1)] = 0
    /\ lastPub[Uuid(1)].done
    /\ lastPub[Uuid(1)].ttl > 0
    /\ lastPub[Uuid(1)].age = lastPub[Uuid(1)].ttl
    /\ store[result_key(Uuid(1))] = <<>>

\* C19: end-to-end delivery.  With a running worker every enqueued job
\* eventually has a result published under its own id.  A request whose
\* wait_for_result returns gets a record published under its own job id,
\* and when the handler returned it is {status: "ok"} joined with what the
\* handler returned; the wait of a request times out only if nothing was
\* published for its job by then.
C19_EndToEnd ==
    /\ \A n \in 1..MaxJobs :
        (Len(enqLog) >= n /\ \E w \in GatewayWorkers : wpc[w] # "off")
            ~> (pubLog[Uuid(n)] # <<>>)
    /\ [](\A c \in Callers :
            (gw[c].pc # "none" /\ outcome[c].kind = "result") =>
                /\ outcome[c].job_id = gw[c].job
                /\ returned[gw[c].job].is =>
                    LET got == outcome[c].value.v
                        res == returned[gw[c].job].result.v
                    IN /\ DOMAIN got = DOMAIN res \cup {"status"}
                       /\ got["status"] = PyStr("ok")
                       /\ \A k \in DOMAIN res : got[k] = res[k])
    /\ [][\A c \in Callers :
            (cpc[c] = "waiting" /\ cpc'[c] = "done" /\ outcome'[c].kind = "TimeoutError")
                => pubLog[waitId[c]] = <<>>]_vars

\* The safety-scan request got {status: "ok", verdict: {verdict: "safe",
\* categories: []}} within its timeout.
C19_Witness ==
    /\ gw["c1"].pc = "done"
    /\ gw["c1"].task.kind = "safety"
    /\ outcome["c1"].kind = "result"
    /\ outcome["c1"].job_id = gw["c1"].job
    /\ outcome["c1"].value =
           PyDict([status |-> PyStr("ok"),
                   verdict |-> PyDict([verdict |-> PyStr("safe"),
                                       categories |-> PyList(<<>>)])])


\* C21: a result key's expiry is measured from the last publish to it.
\* The EXPIRE of publish_result sets the remaining lifetime of the whole
\* key to ttl and keeps every entry under it; whenever no publish is under
\* way, a key that still has entries has exactly ttl minus the time since
\* the last publish left, and once ttl seconds have passed since the last
\* publish no entry, earlier or later, is left under the key.
C21_ExpiryFromLastPublish ==
    /\ [](\A id \in JobIds :
            ~PublishInProgress(id) =>
                /\ store[result_key(id)] # <<>> =>
                     /\ lastPub[id].done
                     /\ expiry[result_key(id)] = lastPub[id].ttl - lastPub[id].age
                /\ ExpiredSince(id) => store[result_key(id)] = <<>>)
    /\ [][pub.pc = "expire" /\ pub'.pc = "idle" /\ store[result_key(pub.job_id)] # <<>> =>
            /\ store'[result_key(pub.job_id)] = store[result_key(pub.job_id)]
            /\ expiry'[result_key(pub.job_id)] = pub.ttl]_vars

\* An entry published with ttl 5 is still under its key 5 seconds after a
\* later publish with ttl 10, with 5 seconds of the key's lifetime left.
C21_Witness ==
    \E id \in JobIds :
        /\ ~PublishInProgress(id)
        /\ Len(store[result_key(id)]) = 2
        /\ store[result_key(id)][1].ttl = PopTimeout
        /\ store[result_key(id)][2].ttl = 2 * PopTimeout
        /\ lastPub[id].age = PopTimeout
        /\ expiry[result_key(id)] = PopTimeout


\* C22: the dispatch loop publishes with the job's result_ttl.  pop gives
\* the task the result_ttl of its queue record, or 120 when the record has
\* none; every publish_result call of the loop (unknown type, handler
\* success, handler error) carries that value as ttl, never the default
\* 300, and its EXPIRE sets the key's lifetime to it; every entry under a
\* result key was published with the result_ttl the job was enqueued with.
EnqueuedTtl(id) ==
    IF \E i \in 1..Len(enqLog) : enqLog[i].job_id.v = id
    THEN (CHOOSE t \in {enqLog[i] : i \in 1..Len(enqLog)} : t.job_id.v = id).result_ttl.v
    ELSE DefaultResultTtl

C22_PublishTtl ==
    /\ [](\A id \in JobIds : \A i \in 1..Len(store[result_key(id)]) :
            store[result_key(id)][i].ttl = EnqueuedTtl(id))
    /\ [](\A w \in Workers : wpc[w] \in {"rpush", "expire"} =>
            /\ pending[w].ttl = task[w].result_ttl.v
            /\ pending[w].ttl = EnqueuedTtl(task[w].job_id.v)
            /\ pending[w].branch \in {"unknown", "ok", "error"})
    /\ [][\A w \in Workers :
            /\ wpc[w] = "pop" /\ wpc'[w] \in {"handler", "rpush"} =>
                 LET raw == Head(store[DEFAULT_QUEUE_KEY]) IN
                 task'[w].result_ttl.v = IF "result_ttl" \in DOMAIN raw.v
                                         THEN raw.v["result_ttl"].v
                                         ELSE 120
            /\ wpc[w] = "expire" /\ wpc'[w] = "pop" /\ task[w].result_ttl.v > 0
               /\ store[result_key(task[w].job_id.v)] # <<>> =>
                 expiry'[result_key(task[w].job_id.v)] = task[w].result_ttl.v]_vars

\* A job enqueued with result_ttl 10 and a job whose record has no
\* result_ttl both have their results under their keys, the first with 10
\* seconds to live and the second with 120.
C22_Witness ==
    \E a, b \in JobIds :
        /\ \E i \in 1..Len(enqLog) : enqLog[i].job_id.v = a /\ enqLog[i].result_ttl.v = 2 * PopTimeout
        /\ \A i \in 1..Len(enqLog) : enqLog[i].job_id.v # b
        /\ store[result_key(a)] # <<>> /\ expiry[result_key(a)] = 2 * PopTimeout
        /\ store[result_key(b)] # <<>> /\ expiry[result_key(b)] = 120
        /\ store[result_key(b)][1].ttl = 120


\* C23: the status of a published record.  Every record the dispatch loop
\* published has a status field that is "ok" or "error"; it is "ok" exactly
\* when the job's type was registered and the handler returned without
\* raising, whatever the handler returned; an "ok" record has every field
\* of the handler's result.
C23_StatusOkOrError ==
    \A id \in JobIds : \A i \in 1..Len(pubLog[id]) :
        LET r == pubLog[id][i].v IN
        /\ "status" \in DOMAIN r
        /\ r["status"] \in {PyStr("ok"), PyStr("error")}
        /\ r["status"] = PyStr("ok") <=> returned[id].is
        /\ r["status"] = PyStr("ok") /\ returned[id].result.t = "dict" =>
              \A k \in DOMAIN returned[id].result.v : r[k] = returned[id].result.v[k]


\* C24: each worker has at most one job in flight.  A job that was popped
\* and whose publish has not finished is held by exactly one worker, which
\* is in the handler call or in publish_result for it, and no two workers
\* hold the same job; such a worker keeps its task and pops nothing until
\* the publish is over, so a record that leaves the queue meanwhile was
\* popped by another worker.
Busy(w) == wpc[w] \in {"handler", "rpush", "expire"}

InFlight(id) == (\E i \in 1..Len(popLog) : popLog[i].job_id.v = id) /\ ~lastPub[id].done

C24_OneJobInFlight ==
    /\ [](/\ \A id \in JobIds : InFlight(id) =>
                \E w \in Workers :
                    /\ Busy(w) /\ task[w].job_id.v = id
                    /\ \A w2 \in Workers \ {w} : ~(Busy(w2) /\ task[w2].job_id.v = id)
          /\ \A w \in Workers : Busy(w) => InFlight(task[w].job_id.v))
    /\ [][\A w \in Workers : Busy(w) =>
            /\ task'[w] = task[w]
            /\ wpc'[w] = "pop" => wpc[w] = "expire" /\ lastPub'[task[w].job_id.v].done
            /\ Len(store'[DEFAULT_QUEUE_KEY]) < Len(store[DEFAULT_QUEUE_KEY]) =>
                 \E w2 \in Workers \ {w} :
                    /\ wpc[w2] = "pop" /\ Busy(w2)'
                    /\ task'[w2] = PopTask(Head(store[DEFAULT_QUEUE_KEY]))]_vars

\* Worker w1 is still in the handler call for the first job while w2, which
\* popped the job queued behind it, is publishing that job's result.
C24_Witness ==
    /\ wpc["w1"] = "handler" /\ task["w1"].job_id.v = Uuid(1)
    /\ wpc["w2"] = "expire" /\ task["w2"].job_id.v = Uuid(2)
    /\ store[DEFAULT_QUEUE_KEY] = <<>>


\* C25: an LLM-reply request sends at most one message.  It sends one only
\* when it enqueued a job and wait_for_result returned a record whose reply
\* field is non-empty, and what it sends is that reply; a request whose
\* record has no reply, a null reply or an empty reply (an error record
\* among them) sends nothing, and a request with an empty prompt enqueues
\* no job and sends nothing.
C25_AtMostOneReply ==
    \A c \in Callers : (gw[c].pc # "none" /\ gw[c].task.kind = "llm") =>
        LET r == gw[c]
            reply == DictGet(outcome[c].value.v, "reply", PyNone)
        IN /\ Len(r.effects) <= 1
           /\ r.effects # <<>> =>
                /\ r.enqueues = 1 /\ r.task.text # ""
                /\ outcome[c].kind = "result" /\ outcome[c].job_id = r.job
                /\ Truthy(reply)
                /\ r.effects[1].arg = reply
                /\ r.effects[1].kind = IF r.task.reply_to_message THEN "message.reply"
                                       ELSE "channel.send"
           /\ (r.pc = "done" /\ outcome[c].kind = "result" /\ ~Truthy(reply)) =>
                r.effects = <<>>
           /\ (r.pc = "done" /\ outcome[c].kind = "result" /\ Truthy(reply)) =>
                Len(r.effects) = 1
           /\ r.task.text = "" =>
                r.enqueues = 0 /\ r.job = "" /\ r.effects = <<>> /\ r.pc \in {"spawned", "done"}

\* A request called with reply_to_message got {status: "ok", reply:
\* "shalom"} and answered the message with "shalom".
C25_Witness ==
    /\ gw["c1"].pc = "done"
    /\ gw["c1"].task.kind = "llm"
    /\ outcome["c1"].kind = "result"
    /\ outcome["c1"].value = PyDict([status |-> PyStr("ok"), reply |-> PyStr("shalom")])
    /\ gw["c1"].effects = <<[kind |-> "message.reply", arg |-> PyStr("shalom")]>>


\* C26: a message is reported as flagged only when the classifier's verdict
\* label for it is not "safe".  A safety-scan request calls
\* send_flagged_message_report only after wait_for_result returned an ok
\* record whose verdict is a mapping with a label other than "safe"; a
\* record with a "safe" verdict, with no verdict, or with status "error"
\* is not reported.
C26_ReportOnlyUnsafe ==
    \A c \in Callers :
        (gw[c].pc # "none" /\ gw[c].task.kind = "safety" /\ gw[c].effects # <<>>) =>
            /\ outcome[c].kind = "result"
            /\ DictGet(outcome[c].value.v, "status", PyNone) = PyStr("ok")
            /\ LET verdict == DictGet(outcome[c].value.v, "verdict", PyNone) IN
                /\ verdict.t = "dict"
                /\ Lower(PyFormat(DictGet(verdict.v, "verdict", PyStr("safe")))) # "safe"


\* C27: store-unreachable at startup is fatal and detected before any
\* work.  A worker enters its dispatch loop only after finding the store
\* reachable and ends without entering it otherwise; the gateway registers
\* its event handlers and connects only after a ping that the store
\* answered, and exits when the ping fails.
C27_StartupCheck ==
    [][/\ \A w \in Workers :
            wpc[w] = "off" /\ wpc'[w] # "off" =>
                IF reach THEN wpc'[w] = "pop" ELSE wpc'[w] = "crashed"
       /\ gwproc = "ping" /\ gwproc' # "ping" =>
                IF reach THEN gwproc' = "setup_events" ELSE gwproc' = "exited"
       /\ gwproc' \in {"cogs", "running"} => gwproc \in {"setup_events", "cogs", "running"}
      ]_vars


\* C28: the slow-down warning is sent only once.  A message is treated as
\* spam exactly when it is its user's more-than-20th message within the
\* last 10 seconds; message.delete() is called for every spam message; in
\* an unbroken run of consecutive spam messages of a user the warning is
\* sent for at most one of them.
RecentMessages(u) ==
    Cardinality({i \in 1..Len(antispam.sent[u]) :
                    antispam.sent[u][i] > antispam.now - SpamWindow})

C28_WarnOnce ==
    \A u \in Users :
        /\ antispam.warnings[u] <= 1
        /\ antispam.sent[u] # <<>>
           /\ antispam.sent[u][Len(antispam.sent[u])] = antispam.now =>
               /\ antispam.last[u].is_spam <=> RecentMessages(u) > 20
               /\ antispam.last[u].is_spam <=> antispam.last[u].delete # "none"


C30_VoiceAutoRecord ==
    /\ Cardinality(voice.tasks) <= 1
    /\ voice.recording_tasks # 0 => voice.recording_tasks \in voice.tasks
    /\ voice.voice_clients => voice.conn = "connected"
    /\ ((\A h \in 1..MaxVoiceEvents : voice.handlers[h] \in {"none", "done", "failed"})
        /\ voice.members = {}) =>
            /\ ~voice.active_sinks
            /\ ~voice.voice_clients
            /\ voice.recording_tasks = 0
            /\ voice.session = "none"
            /\ voice.conn = "none"

====
